---- MODULE Spec2Model ----
(***************************************************************************)
(* A model of raptor-rs: the flattened timetable (Network / Raptor), the   *)
(* single-criterion RAPTOR rounds (Raptor::query), the connection scan     *)
(* (csa_query), journey reconstruction (Journey::from_tau) and the Pareto  *)
(* bag of the multi-criterion scanner (Bag<N>::add).                       *)
(*                                                                         *)
(* Arrays are functions over 0..n-1, as in the source.  Option<T> is a     *)
(* sequence of length 0 (None) or 1 (Some).  Timestamp::MAX is the largest *)
(* value of a narrower unsigned type than u32; saturating arithmetic is    *)
(* kept.                                                                   *)
(***************************************************************************)
EXTENDS Integers, Sequences, FiniteSets, TLC

VARIABLES
    network,        \* the Network / Raptor struct (flat arrays)
    query,          \* [start, start_time, end]
    pc,             \* position of the driver: which call runs next
    raptor,         \* per-query state of Raptor::query
    raptor_journey, \* Vec<Leg> returned by Raptor::query (None until returned)
    csa,            \* per-query state of csa_query
    csa_result,     \* JourneyResult returned by csa_query (None until returned)
    bag,            \* Bag<N>.labels
    bag_cap,        \* the const generic N of Bag<N>
    bag_call,       \* the last Bag::add call: argument, bag before, return value
    gtfs,           \* the parsed feed, journey date and default transfer time given to Network::new
    history,        \* what earlier calls were given and returned
    mc              \* the multi-criterion RAPTOR query: its arguments, state and result

vars == <<network, query, pc, raptor, raptor_journey, csa, csa_result, bag, bag_cap, bag_call,
          gtfs, history, mc>>

query_vars == <<network, query, pc, raptor, raptor_journey, csa, csa_result>>
bag_vars == <<bag, bag_cap, bag_call>>
feed_vars == <<gtfs, history, mc>>
query_vars_but_pc == <<network, query, raptor, raptor_journey, csa, csa_result>>

(***************************************************************************)
(* Bounds of the model.                                                    *)
(***************************************************************************)
NumStops == 3          \* stops of the timetable
MaxTime == 2           \* largest arrival / departure time in the timetable
MaxStartTime == 1      \* largest start_time of a query
MaxTransfer == 1       \* largest per-stop transfer time
MaxTrips == 2          \* trips of the feed
TimestampMax == 255    \* Timestamp::MAX

(***************************************************************************)
(* Program constants.                                                      *)
(***************************************************************************)
K == 8
MAX_LEGS == 100

None == <<>>
Some(x) == <<x>>
IsSome(o) == o # <<>>
Unwrap(o) == o[1]

\* A per-call state that no call has set up yet.
Idle == [idle |-> TRUE]

Min2(a, b) == IF a <= b THEN a ELSE b
SetMin(S) == CHOOSE x \in S : \A y \in S : x <= y
SetMax(S) == CHOOSE x \in S : \A y \in S : y <= x

\* A Vec built by pushes, read with 0-based indices.
ZeroBased(seq) == [i \in 0..(Len(seq) - 1) |-> seq[i + 1]]
Size(arr) == Cardinality(DOMAIN arr)

\* u32::saturating_add
SaturatingAdd(a, b) == IF a > TimestampMax - b THEN TimestampMax ELSE a + b
\* u32 subtraction as the release build performs it (wrapping).
WrappingSub(a, b) == (a - b) % (TimestampMax + 1)

Last(seq) == seq[Len(seq)]

\* The stop indices of the network (0..stops.len() - 1).
Stops == DOMAIN network.stops

(***************************************************************************)
(* The timetable.  A feed is a sequence of routes; a route is a stop       *)
(* sequence and its trips; a trip is one StopTime per stop of the route.   *)
(***************************************************************************)
StopTime(a, d) == [arrival_time |-> a, departure_time |-> d]

\* Stop sequences of the routes: 2 or 3 stops in ascending order.
RouteShapes ==
    { sh \in [1..2 -> 0..(NumStops - 1)] \cup [1..3 -> 0..(NumStops - 1)] :
        \A i \in 1..(Len(sh) - 1) : sh[i] < sh[i + 1] }

\* Trips over n stops, the first one reached at t0: times never decrease
\* along the trip, the vehicle may dwell at a stop between the first and the
\* last, and a hop may take no time.  Arrival and departure coincide at the
\* first and at the last stop.
RECURSIVE TripsFrom(_, _, _)
TripsFrom(n, t0, first) ==
    IF n = 1
    THEN { <<StopTime(t0, t0)>> }
    ELSE UNION { { <<StopTime(t0, d)>> \o rest : rest \in
                     UNION { TripsFrom(n - 1, a, FALSE) : a \in d..MaxTime } } :
                 d \in t0..(IF first THEN t0 ELSE MaxTime) }

TripsOver(n) == UNION { TripsFrom(n, t0, TRUE) : t0 \in 0..MaxTime }

\* The trips of one route, in the order Network::new leaves them: sorted by
\* the arrival time at the first stop (ties in any order).
SortedTripSeqs(len, n) ==
    { ts \in [1..n -> TripsOver(len)] :
        \A i \in 1..(n - 1) : ts[i][1].arrival_time <= ts[i + 1][1].arrival_time }

RoutesWith(n) ==
    UNION { { [stops |-> sh, trips |-> ts] : ts \in SortedTripSeqs(Len(sh), n) } :
            sh \in RouteShapes }

\* Feeds of at most m trips in all.
RECURSIVE Feeds(_)
Feeds(m) ==
    {<<>>} \cup
    UNION { { <<r>> \o f : r \in RoutesWith(n), f \in Feeds(m - n) } : n \in 1..m }

RECURSIVE SumNumStops(_, _)
SumNumStops(feed, n) ==
    IF n = 0 THEN 0 ELSE SumNumStops(feed, n - 1) + Len(feed[n].stops)

RECURSIVE SumStopTimes(_, _)
SumStopTimes(feed, n) ==
    IF n = 0 THEN 0
    ELSE SumStopTimes(feed, n - 1) + Len(feed[n].stops) * Len(feed[n].trips)

RECURSIVE SumNumTrips(_, _)
SumNumTrips(feed, n) ==
    IF n = 0 THEN 0 ELSE SumNumTrips(feed, n - 1) + Len(feed[n].trips)

RECURSIVE Concat(_)
Concat(seqs) == IF seqs = <<>> THEN <<>> ELSE Head(seqs) \o Concat(Tail(seqs))

\* Route metadata pushed at network.rs:369-379.
RouteOf(feed, r) ==
    [ num_stops |-> Len(feed[r].stops),
      num_trips |-> Len(feed[r].trips),
      route_stops_idx |-> SumNumStops(feed, r - 1),
      stop_times_idx |-> SumStopTimes(feed, r - 1) ]

\* The routes through a stop, in route order (network.rs:400-415).
RoutesThrough(feed, s) ==
    SelectSeq([r \in 1..Len(feed) |-> r - 1],
              LAMBDA ri : \E o \in 1..Len(feed[ri + 1].stops) : feed[ri + 1].stops[o] = s)

RECURSIVE SumRoutesThrough(_, _)
SumRoutesThrough(feed, s) ==
    IF s = 0 THEN 0 ELSE SumRoutesThrough(feed, s - 1) + Len(RoutesThrough(feed, s - 1))

\* Network::new, phase C: the flat arrays of the routes and their trips.
\* connections stay empty until build_connections runs.
NetworkNew(feed, transfer) ==
    [ routes |-> ZeroBased([r \in 1..Len(feed) |-> RouteOf(feed, r)]),
      stops |-> [s \in DOMAIN transfer |->
                    [ routes_idx |-> SumRoutesThrough(feed, s),
                      num_routes |-> Len(RoutesThrough(feed, s)) ]],
      num_trips |-> SumNumTrips(feed, Len(feed)),
      stop_times |-> ZeroBased(Concat([r \in 1..Len(feed) |-> Concat(feed[r].trips)])),
      stop_routes |-> ZeroBased(Concat([s \in 1..Size(transfer) |-> RoutesThrough(feed, s - 1)])),
      route_stops |-> ZeroBased(Concat([r \in 1..Len(feed) |-> feed[r].stops])),
      connections |-> <<>>,
      transfer_times |-> transfer ]

\* Route::get_stops, as the function stop_order -> stop.
get_stops(route) ==
    [o \in 0..(route.num_stops - 1) |-> network.route_stops[route.route_stops_idx + o]]

\* Route::get_stop_times_index
get_stop_times_index(route, trip_order, stop_order) ==
    route.stop_times_idx + trip_order * route.num_stops + stop_order

\* Route::get_trip, as the function stop_order -> StopTime.
get_trip(route, trip_order) ==
    [o \in 0..(route.num_stops - 1) |->
        network.stop_times[get_stop_times_index(route, trip_order, o)]]

\* Stop::get_routes, as the sequence of route indices.
get_routes(stop) ==
    [i \in 1..stop.num_routes |-> network.stop_routes[stop.routes_idx + i - 1]]

RouteIdxs == DOMAIN network.routes

(***************************************************************************)
(* Raptor::query (src/src/raptor.rs).                                      *)
(***************************************************************************)
\* raptor.rs:220-233: the state a query starts with.
RaptorInit(start, start_time) ==
    [ k |-> 1,
      tau |-> [s \in Stops |-> [i \in 0..(K - 1) |->
                  IF s = start /\ i = 0 THEN start_time ELSE TimestampMax]],
      tau_star |-> [s \in Stops |->
                  [time |-> IF s = start THEN start_time ELSE TimestampMax,
                   boarding |-> None]],
      marked_stops |-> [s \in Stops |-> s = start],
      earliest_stop_for_route |-> [r \in RouteIdxs |-> None] ]

\* raptor.rs:237: what earliest_stop_for_route is filled with when a round starts.
RoundFill == Some(0)

\* raptor.rs:247-261: one marked stop seen on one route.
MarkRoute(earliest, route_idx, marked_stop) ==
    LET route == network.routes[route_idx]
        limit == IF IsSome(earliest[route_idx]) THEN Unwrap(earliest[route_idx])
                 ELSE route.num_stops
        hits  == { o \in 0..(route.num_stops - 1) :
                      o < limit /\ get_stops(route)[o] = marked_stop }
    IN  IF hits # {}
        THEN [earliest EXCEPT ![route_idx] = Some(SetMin(hits))]
        ELSE earliest

RECURSIVE MarkRoutesOfStop(_, _, _)
MarkRoutesOfStop(earliest, marked_stop, i) ==
    LET through == get_routes(network.stops[marked_stop])
    IN  IF i > Len(through) THEN earliest
        ELSE MarkRoutesOfStop(MarkRoute(earliest, through[i], marked_stop), marked_stop, i + 1)

\* raptor.rs:237-265: the routes to scan in this round and where to start.
RECURSIVE CollectRoutes(_, _, _)
CollectRoutes(earliest, marked_stops, s) ==
    IF s >= Size(marked_stops) THEN earliest
    ELSE CollectRoutes(
            IF marked_stops[s] THEN MarkRoutesOfStop(earliest, s, 1) ELSE earliest,
            marked_stops, s + 1)

\* raptor.rs:321-335: the trip found by the reverse scan below current_trip_idx.
FoundTripIdx(route, stop_order, current_trip_idx, boarding_time) ==
    LET dep(t) == network.stop_times[route.stop_times_idx + t * route.num_stops
                                      + stop_order].departure_time
        taken  == { t \in 0..(current_trip_idx - 1) :
                      \A u \in t..(current_trip_idx - 1) : dep(u) >= boarding_time }
    IN  IF taken = {} THEN None
        ELSE Some([trip_idx |-> SetMin(taken), departure_time |-> dep(SetMin(taken))])

\* raptor.rs:297: is the arrival an improvement (local and target pruning)?
Improves(arrival_time, tau_star, stop_idx, end) ==
    arrival_time < Min2(tau_star[stop_idx].time, tau_star[end].time)

\* A variant that also charges the transfer time in the first round.
CurrentTransferTime_AlwaysCharged(k, stop_idx) ==
    network.transfer_times[stop_idx]

\* raptor.rs:285-289: the transfer time charged at a stop in round k.
CurrentTransferTime(k, stop_idx) ==
    IF k > 1 THEN network.transfer_times[stop_idx] ELSE 0

\* raptor.rs:282-348: one stop of a route scan.  st carries tau, tau_star,
\* marked_stops and trip_idx (the boarded trip and its Boarding).
ScanStop(st, k, route_idx, stop_order, end) ==
    LET route    == network.routes[route_idx]
        stop_idx == get_stops(route)[stop_order]
        current_tau == st.tau[stop_idx][k - 1]
        current_transfer_time == CurrentTransferTime(k, stop_idx)
        boarded  == IsSome(st.trip_idx)
        trip     == get_trip(route, Unwrap(st.trip_idx).trip_idx)
        improve  == boarded /\ Improves(trip[stop_order].arrival_time, st.tau_star, stop_idx, end)
        st1      == IF improve
                    THEN [st EXCEPT
                            !.tau[stop_idx][k] = trip[stop_order].arrival_time,
                            !.tau_star[stop_idx] =
                                [time |-> trip[stop_order].arrival_time,
                                 boarding |-> Some(Unwrap(st.trip_idx).boarding)],
                            !.marked_stops[stop_idx] = TRUE]
                    ELSE st
        boarding_time == SaturatingAdd(current_tau, current_transfer_time)
        can_catch == \/ ~boarded
                     \/ boarding_time <= trip[stop_order].departure_time
        current_trip_idx == IF boarded THEN Unwrap(st.trip_idx).trip_idx ELSE route.num_trips
        found    == IF can_catch
                    THEN FoundTripIdx(route, stop_order, current_trip_idx, boarding_time)
                    ELSE None
    IN  IF IsSome(found)
        THEN [st1 EXCEPT !.trip_idx =
                Some([trip_idx |-> Unwrap(found).trip_idx,
                      boarding |-> [boarded_stop |-> stop_idx,
                                    boarded_time |-> Unwrap(found).departure_time,
                                    line |-> route_idx,
                                    trip_order |-> Unwrap(found).trip_idx]])]
        ELSE st1

\* raptor.rs:274-349: the scan of one route from earliest_stop_order on.
RECURSIVE ScanRoute(_, _, _, _, _)
ScanRoute(st, k, route_idx, stop_order, end) ==
    IF stop_order >= network.routes[route_idx].num_stops THEN st
    ELSE ScanRoute(ScanStop(st, k, route_idx, stop_order, end), k, route_idx, stop_order + 1, end)

\* raptor.rs:269-350: every collected route, in route order.
RECURSIVE ScanRoutes(_, _, _, _, _)
ScanRoutes(st, k, earliest, route_idx, end) ==
    IF route_idx >= Size(network.routes) THEN st
    ELSE LET scanned == IF IsSome(earliest[route_idx])
                        THEN ScanRoute([st EXCEPT !.trip_idx = None], k, route_idx,
                                       Unwrap(earliest[route_idx]), end)
                        ELSE st
         IN  \* the scan of one route is worked out before the next one starts
             IF scanned = st
             THEN ScanRoutes(st, k, earliest, route_idx + 1, end)
             ELSE ScanRoutes(scanned, k, earliest, route_idx + 1, end)

\* utils::is_zero
is_zero(buf) == \A i \in DOMAIN buf : buf[i] = FALSE

\* raptor.rs:236-357: round k.
RaptorRoundOf(r, end) ==
    LET earliest == CollectRoutes([x \in RouteIdxs |-> RoundFill], r.marked_stops, 0)
        st0 == [tau |-> r.tau, tau_star |-> r.tau_star,
                marked_stops |-> [s \in Stops |-> FALSE], trip_idx |-> None]
        st  == ScanRoutes(st0, r.k, earliest, 0, end)
    IN  [ k |-> r.k + 1,
          tau |-> st.tau,
          tau_star |-> st.tau_star,
          marked_stops |-> st.marked_stops,
          earliest_stop_for_route |-> earliest ]

\* raptor.rs:373-394: the legs from end back to start, last leg first.
\* The loop of the source has no bound; the walk of the model stops after
\* more legs than there are stops and reports that the loop does not end.
RECURSIVE RaptorWalk(_, _, _, _)
RaptorWalk(tau_star, start, current_stop, fuel) ==
    IF current_stop = start \/ tau_star[current_stop].boarding = None
    THEN [diverges |-> FALSE, legs |-> <<>>]
    ELSE IF fuel = 0 THEN [diverges |-> TRUE, legs |-> <<>>]
    ELSE LET b == Unwrap(tau_star[current_stop].boarding)
             rest == RaptorWalk(tau_star, start, b.boarded_stop, fuel - 1)
         IN  [ diverges |-> rest.diverges,
               legs |-> << [ boarded_stop |-> b.boarded_stop,
                             boarded_time |-> b.boarded_time,
                             arrival_stop |-> current_stop,
                             arrival_time |-> tau_star[current_stop].time,
                             line |-> b.line,
                             trip_order |-> b.trip_order ] >> \o rest.legs ]

\* A variant that leaves the legs in the order they were pushed.
Reverse_NotReversed(seq) == seq

\* Vec::reverse (raptor.rs:392, journey.rs:173)
Reverse(seq) == [i \in 1..Len(seq) |-> seq[Len(seq) + 1 - i]]

\* raptor.rs:373-394
RaptorJourney(tau_star, start, end) ==
    LET walk == RaptorWalk(tau_star, start, end, Size(tau_star) + 1)
    IN  [diverges |-> walk.diverges, legs |-> Reverse(walk.legs)]

(***************************************************************************)
(* Network::build_connections (src/src/network.rs).                        *)
(***************************************************************************)
\* A variant that numbers the trips of every route from 0.
TripsBefore_PerRoute(route_idx) == 0

\* The sequential trip index of (route_idx, trip_order): trips are numbered
\* route after route (network.rs:451-475).
RECURSIVE TripsBefore(_)
TripsBefore(route_idx) ==
    IF route_idx = 0 THEN 0
    ELSE TripsBefore(route_idx - 1) + network.routes[route_idx - 1].num_trips

\* network.rs:461-472
ConnectionOf(route_idx, trip_order, arrival_stop_order) ==
    LET route == network.routes[route_idx]
        departure_stop_order == arrival_stop_order - 1
    IN  [ sequential_trip_idx |-> TripsBefore(route_idx) + trip_order,
          trip |-> [route_idx |-> route_idx, trip_order |-> trip_order],
          departure_idx |-> get_stops(route)[departure_stop_order],
          departure_stop_order |-> departure_stop_order,
          departure_time |-> get_trip(route, trip_order)[departure_stop_order].departure_time,
          arrival_idx |-> get_stops(route)[arrival_stop_order],
          arrival_time |-> get_trip(route, trip_order)[arrival_stop_order].arrival_time ]

\* network.rs:452-476: one connection per route, trip and adjacent stop pair.
EmittedConnections ==
    UNION { UNION { { ConnectionOf(r, t, o) : o \in 1..(network.routes[r].num_stops - 1) } :
                    t \in 0..(network.routes[r].num_trips - 1) } :
            r \in RouteIdxs }

\* build_connections without the sort: the connections in any order.
SortedOrders_AnyOrder(conns) ==
    { f \in [1..Cardinality(conns) -> conns] : \A i, j \in DOMAIN f : f[i] = f[j] => i = j }

\* network.rs:479: sort_unstable_by_key leaves connections of equal departure
\* time in an order it does not specify: every order sorted by departure time.
RECURSIVE SortedOrders(_)
SortedOrders(conns) ==
    IF conns = {} THEN { <<>> }
    ELSE LET first == { c \in conns : \A d \in conns : c.departure_time <= d.departure_time }
         IN  UNION { { <<c>> \o rest : rest \in SortedOrders(conns \ {c}) } : c \in first }

(***************************************************************************)
(* csa_query (src/src/csa.rs) and Journey::from_tau (src/src/journey.rs).  *)
(***************************************************************************)
\* Boarding::from
BoardingFrom(connection) ==
    [ boarded_stop |-> connection.departure_idx,
      boarded_stop_order |-> connection.departure_stop_order,
      boarded_time |-> connection.departure_time,
      trip |-> connection.trip ]

\* TauEntry::default
TauEntryDefault == [time |-> TimestampMax, boarding |-> None]

\* slice::partition_point on the departure-sorted list (csa.rs:25): the index
\* of the first connection that departs at or after start_time.
StartConnection(connections, start_time) ==
    LET n == Size(connections)
        at_or_after == { i \in 0..(n - 1) : connections[i].departure_time >= start_time }
    IN  IF at_or_after = {} THEN n ELSE SetMin(at_or_after)

\* A variant whose trip_reachable flags outlive the query: a second query
\* starts with the trips the first one boarded already reachable.
CsaInit_StaleTrips(start, start_time) ==
    [ tau |-> [s \in Stops |->
                 IF s = start THEN [time |-> start_time, boarding |-> None]
                 ELSE TauEntryDefault],
      end_time |-> TimestampMax,
      trip_reachable |-> IF csa = Idle THEN [t \in 0..(network.num_trips - 1) |-> FALSE]
                         ELSE csa.trip_reachable,
      pos |-> StartConnection(network.connections, start_time),
      debug_assert_failed |-> FALSE ]

\* csa.rs:17-25
CsaInit(start, start_time) ==
    [ tau |-> [s \in Stops |->
                 IF s = start THEN [time |-> start_time, boarding |-> None]
                 ELSE TauEntryDefault],
      end_time |-> TimestampMax,
      trip_reachable |-> [t \in 0..(network.num_trips - 1) |-> FALSE],
      pos |-> StartConnection(network.connections, start_time),
      debug_assert_failed |-> FALSE ]

\* csa.rs:36-40: the transfer time charged before boarding connection c.
CsaTransferTime(connection, start) ==
    IF connection.arrival_idx = start THEN 0
    ELSE network.transfer_times[connection.arrival_idx]

\* A variant that skips no connection.
CsaUnreachable_Never(c, connection, start) == FALSE

\* csa.rs:42-46: the connection is skipped as unreachable.
CsaUnreachable(c, connection, start) ==
    /\ ~c.trip_reachable[connection.sequential_trip_idx]
    /\ SaturatingAdd(c.tau[connection.departure_idx].time, CsaTransferTime(connection, start))
         > connection.departure_time

\* csa.rs:55-67: the Boarding written with an improved arrival.
CsaRelax(c, connection) ==
    LET departure_idx == connection.departure_idx
        arrival_idx == connection.arrival_idx
        prev == c.tau[departure_idx].boarding
        t1 == [c.tau EXCEPT ![arrival_idx].time = connection.arrival_time]
    IN  IF IsSome(prev)
        THEN IF Unwrap(prev).trip = connection.trip
             THEN [t1 EXCEPT ![arrival_idx].boarding = prev]
             ELSE [t1 EXCEPT ![arrival_idx].boarding = Some(BoardingFrom(connection))]
        ELSE LET t2 == [t1 EXCEPT ![departure_idx].boarding = Some(BoardingFrom(connection))]
             IN  [t2 EXCEPT ![arrival_idx].boarding = t2[departure_idx].boarding]

\* csa.rs:32-72: the body of the sweep for one connection that is not past
\* end_time.
CsaStepOf(c, connection, start, end) ==
    IF CsaUnreachable(c, connection, start)
    THEN [c EXCEPT !.pos = c.pos + 1]
    ELSE LET improves == connection.arrival_time < c.tau[connection.arrival_idx].time
         IN  [ tau |-> IF improves THEN CsaRelax(c, connection) ELSE c.tau,
               end_time |-> IF improves /\ connection.arrival_idx = end
                            THEN connection.arrival_time ELSE c.end_time,
               trip_reachable |->
                   [c.trip_reachable EXCEPT ![connection.sequential_trip_idx] = TRUE],
               pos |-> c.pos + 1,
               debug_assert_failed |->
                   \/ c.debug_assert_failed
                   \/ /\ improves
                      /\ c.tau[connection.departure_idx].boarding = None
                      /\ connection.departure_idx # start ]

\* Journey::calculate_arrival_stop_order: None where the source panics.
calculate_arrival_stop_order(route, boarded_leg, current_stop) ==
    LET found == { i \in 0..(route.num_stops - 1) :
                     i >= boarded_leg.boarded_stop_order /\ get_stops(route)[i] = current_stop }
    IN  IF found = {} THEN None ELSE Some(SetMin(found))

\* journey.rs:142-171: the walk from current_stop back to start, last leg
\* first: the legs pushed, and how the walk ended ("" when it reached its end).
\* The next stop of the walk is a function of the current one (tau does not
\* change), so a walk that has pushed as many legs as there are stops
\* without reaching start is in a cycle and goes on until num_legs exceeds
\* MAX_LEGS: it is cut short there.
RECURSIVE FromTauWalk(_, _, _, _, _)
FromTauWalk(tau, start, current_stop, num_legs, last_boarding) ==
    IF current_stop = start THEN [err |-> "", legs |-> <<>>]
    ELSE IF num_legs + 1 > MAX_LEGS \/ (num_legs >= Size(tau) /\ Size(tau) < MAX_LEGS)
         THEN [err |-> "InfiniteLoop", legs |-> <<>>]
    ELSE LET current_tau == tau[current_stop]
         IN  IF current_tau.boarding = None THEN [err |-> "", legs |-> <<>>]
             ELSE LET boarded_leg == Unwrap(current_tau.boarding)
                      route == network.routes[boarded_leg.trip.route_idx]
                      aso == calculate_arrival_stop_order(route, boarded_leg, current_stop)
                      rest == FromTauWalk(tau, start, boarded_leg.boarded_stop,
                                          num_legs + 1, Some(boarded_leg))
                      leg == [ boarded_stop |-> boarded_leg.boarded_stop,
                               boarded_stop_order |-> boarded_leg.boarded_stop_order,
                               boarded_time |-> boarded_leg.boarded_time,
                               arrival_stop |-> current_stop,
                               arrival_stop_order |-> Unwrap(aso),
                               arrival_time |-> current_tau.time,
                               transfer_time |->
                                   IF IsSome(last_boarding)
                                   THEN Some(WrappingSub(Unwrap(last_boarding).boarded_time,
                                                         current_tau.time))
                                   ELSE None,
                               trip |-> boarded_leg.trip ]
                  IN  IF aso = None THEN [err |-> "panic", legs |-> <<>>]
                      ELSE IF rest.err # "" THEN rest
                      ELSE [err |-> "", legs |-> <<leg>> \o rest.legs]

\* Journey::from: the duration of the legs.
JourneyFrom(legs, cost) ==
    [ status |-> "Ok",
      legs |-> legs,
      duration |-> IF legs = <<>> THEN 0
                   ELSE IF legs[Len(legs)].arrival_time >= legs[1].boarded_time
                        THEN legs[Len(legs)].arrival_time - legs[1].boarded_time
                        ELSE 0,
      cost |-> cost ]

\* Err(e) of a JourneyResult
JourneyErr(e) == [status |-> e, legs |-> <<>>, duration |-> 0, cost |-> 0]

\* A variant that reports that there is no journey.
JourneyEmpty_NoJourneyFound == JourneyErr("NoJourneyFound")

\* Journey::empty
JourneyEmpty == [status |-> "Ok", legs |-> <<>>, duration |-> 0, cost |-> 0]

\* Journey::from_tau
from_tau(tau, start, end) ==
    IF tau[end].boarding = None THEN JourneyErr("NoJourneyFound")
    ELSE LET walk == FromTauWalk(tau, start, end, 0, None)
         IN  IF walk.err # "" THEN JourneyErr(walk.err)
             ELSE JourneyFrom(Reverse(walk.legs), 0)

(***************************************************************************)
(* The driver: a network is built from a feed, one query (start,           *)
(* start_time, end) is answered by Raptor::query, then the connections are *)
(* built and the same query is answered by csa_query.                      *)
(***************************************************************************)

\* Per-stop transfer times: the default everywhere (network.rs:424), with
\* the one of stop 1 overwritten by set_transfer_time_for_stop.
TransferTimes ==
    { [s \in 0..(NumStops - 1) |-> IF s = 1 THEN v ELSE d] :
        d \in 0..MaxTransfer, v \in 0..MaxTransfer }

\* No feed is kept and no earlier call is remembered.
FeedIdle ==
    /\ gtfs = Idle
    /\ history = Idle
    /\ mc = Idle

BagIdle ==
    /\ bag = <<>>
    /\ bag_cap = 0
    /\ bag_call = Idle

Init ==
    /\ \E feed \in Feeds(MaxTrips) \ {<<>>}, transfer \in TransferTimes :
          network = NetworkNew(feed, transfer)
    /\ query \in [start : Stops, start_time : 0..MaxStartTime, end : Stops]
    /\ pc = "raptor_query"
    /\ raptor = Idle
    /\ raptor_journey = None
    /\ csa = Idle
    /\ csa_result = None
    /\ BagIdle
    /\ FeedIdle

\* Network::build_connections
BuildConnections ==
    /\ pc = "build_connections"
    /\ \E order \in SortedOrders(EmittedConnections) :
          network' = [network EXCEPT !.connections = ZeroBased(order)]
    /\ pc' = "csa_query"
    /\ UNCHANGED <<query, raptor, raptor_journey, csa, csa_result, bag_vars, feed_vars>>

\* Raptor::query, entry (raptor.rs:216-233).
RaptorStart ==
    /\ pc = "raptor_query"
    /\ raptor' = RaptorInit(query.start, query.start_time)
    /\ pc' = "raptor_round"
    /\ UNCHANGED <<network, query, raptor_journey, csa, csa_result, bag_vars, feed_vars>>

\* Raptor::query, one round of the loop `for k in 1..K` (raptor.rs:236-357).
RaptorRound ==
    /\ pc = "raptor_round"
    /\ raptor.k < K
    /\ raptor' = RaptorRoundOf(raptor, query.end)
    /\ pc' = IF is_zero(raptor'.marked_stops) \/ raptor'.k >= K
             THEN "raptor_reconstruct" ELSE "raptor_round"
    /\ UNCHANGED <<network, query, raptor_journey, csa, csa_result, bag_vars, feed_vars>>

\* Raptor::query, reconstruction and return (raptor.rs:373-394).
RaptorReturn ==
    /\ pc = "raptor_reconstruct"
    /\ raptor_journey' = Some(RaptorJourney(raptor.tau_star, query.start, query.end))
    /\ pc' = "build_connections"
    /\ UNCHANGED <<network, query, raptor, csa, csa_result, bag_vars, feed_vars>>

\* csa_query, entry (csa.rs:6-25).
CsaStart ==
    /\ pc = "csa_query"
    /\ IF query.start = query.end
       THEN /\ csa_result' = Some(JourneyEmpty)
            /\ pc' = "done"
            /\ csa' = csa
       ELSE /\ csa' = CsaInit(query.start, query.start_time)
            /\ pc' = "csa_sweep"
            /\ csa_result' = csa_result
    /\ UNCHANGED <<network, query, raptor, raptor_journey, bag_vars, feed_vars>>

\* csa.rs:27-30: the sweep goes on to the connection at csa.pos.
CsaSweepGoesOn ==
    /\ csa.pos < Size(network.connections)
    /\ network.connections[csa.pos].departure_time < csa.end_time

\* csa_query, one connection of the sweep (csa.rs:27-73).
CsaStep ==
    /\ pc = "csa_sweep"
    /\ CsaSweepGoesOn
    /\ csa' = CsaStepOf(csa, network.connections[csa.pos], query.start, query.end)
    /\ UNCHANGED <<network, query, pc, raptor, raptor_journey, csa_result, bag_vars, feed_vars>>

\* csa_query, after the sweep (csa.rs:75).
CsaReturn ==
    /\ pc = "csa_sweep"
    /\ ~CsaSweepGoesOn
    /\ csa_result' = Some(from_tau(csa.tau, query.start, query.end))
    /\ pc' = "done"
    /\ UNCHANGED <<network, query, raptor, raptor_journey, csa, bag_vars, feed_vars>>

Next ==
    \/ RaptorStart
    \/ RaptorRound
    \/ RaptorReturn
    \/ BuildConnections
    \/ CsaStart
    \/ CsaStep
    \/ CsaReturn

Spec == Init /\ [][Next]_vars

(***************************************************************************)
(* Bag<N> (src/src/multicriteria.rs): a bag of at most N labels, filled by *)
(* a sequence of add calls with labels drawn from a small grid.  The cost  *)
(* of a label (an f32 in the source) is a small integer here: the costs    *)
(* are totally ordered, not-a-number is left out.                          *)
(***************************************************************************)
MaxN == 3
MaxArrival == 3
MaxCost == 3

\* Label: Label::new leaves boarding empty, the queries fill it in.
Labels ==
    [ arrival_time : 0..MaxArrival, cost : 0..MaxCost, boarding : {None, Some(0)} ]

\* Label::dominates
dominates(self, other_label) ==
    /\ self.arrival_time <= other_label.arrival_time
    /\ self.cost <= other_label.cost

\* multicriteria.rs:285-287: the number of labels in front of the first one
\* with a larger arrival time than the new label.
Partition(labels, new_label) ==
    LET later == { i \in 1..Len(labels) : new_label.arrival_time < labels[i].arrival_time }
    IN  [ is_last_label |-> later = {},
          partition |-> IF later = {} THEN Len(labels) ELSE SetMin(later) - 1 ]

\* A variant that lets a label of the same cost in front of the partition pass.
DominatedByPrefix_Strict(labels, partition, new_label) ==
    \E i \in 1..partition : labels[i].cost < new_label.cost

\* multicriteria.rs:290: a label in front of the partition is at most as
\* costly as the new one.
DominatedByPrefix(labels, partition, new_label) ==
    \E i \in 1..partition : labels[i].cost <= new_label.cost

\* A variant that keeps a label of the same cost behind the partition.
Keep_SameCost(label, new_label) == label.cost <= new_label.cost

\* multicriteria.rs:298: a label behind the partition is kept.
Keep(label, new_label) == label.cost < new_label.cost

\* A variant that drops every label behind the partition.
Retain_DropsTail(labels, partition, is_last_label, new_label) ==
    IF is_last_label THEN labels ELSE SubSeq(labels, 1, partition)

\* multicriteria.rs:296-302: retain
Retain(labels, partition, is_last_label, new_label) ==
    IF is_last_label THEN labels
    ELSE SubSeq(labels, 1, partition)
            \o SelectSeq(SubSeq(labels, partition + 1, Len(labels)),
                         LAMBDA label : Keep(label, new_label))

\* A variant that pops the last label before it refuses the new one.
MakeRoom_PopsFirst(labels, N, is_last_label, new_label) ==
    IF Len(labels) = N
    THEN [ refused |-> is_last_label, labels |-> SubSeq(labels, 1, Len(labels) - 1) ]
    ELSE [ refused |-> FALSE, labels |-> labels ]

\* A variant that never makes room.
MakeRoom_Never(labels, N, is_last_label, new_label) ==
    [ refused |-> FALSE, labels |-> labels ]

\* A variant that evicts the first label of a full bag when the new label
\* goes behind it.
MakeRoom_PopsFront(labels, N, is_last_label, new_label) ==
    IF Len(labels) = N
    THEN IF is_last_label
         THEN [ refused |-> TRUE, labels |-> labels ]
         ELSE IF new_label.arrival_time < labels[1].arrival_time
              THEN [ refused |-> FALSE, labels |-> SubSeq(labels, 1, Len(labels) - 1) ]
              ELSE [ refused |-> FALSE,
                     labels |-> <<labels[Len(labels)]>> \o SubSeq(labels, 2, Len(labels) - 1) ]
    ELSE [ refused |-> FALSE, labels |-> labels ]

\* multicriteria.rs:321-334: room for the new label in a full bag.
MakeRoom(labels, N, is_last_label, new_label) ==
    IF Len(labels) = N
    THEN IF is_last_label
         THEN IF new_label.arrival_time < Last(labels).arrival_time
              THEN [ refused |-> FALSE, labels |-> SubSeq(labels, 1, Len(labels) - 1) ]
              ELSE [ refused |-> TRUE, labels |-> labels ]
         ELSE [ refused |-> FALSE, labels |-> SubSeq(labels, 1, Len(labels) - 1) ]
    ELSE [ refused |-> FALSE, labels |-> labels ]

\* Vec::insert at a zero-based index
Insert(labels, index, label) ==
    SubSeq(labels, 1, index) \o <<label>> \o SubSeq(labels, index + 1, Len(labels))

\* Bag::add: the labels after the call, the value returned, and whether the
\* call ran into unreachable! or into the panic of ArrayVec::insert on a full
\* vector (multicriteria.rs:336).
add(labels, N, new_label) ==
    IF labels = <<>>
    THEN [ labels |-> <<new_label>>, returned |-> TRUE, panicked |-> FALSE ]
    ELSE
    LET p == Partition(labels, new_label)
        partition == p.partition
        retained == Retain(labels, partition, p.is_last_label, new_label)
        room == MakeRoom(retained, N, p.is_last_label, new_label)
    IN  IF DominatedByPrefix(labels, partition, new_label)
        THEN [ labels |-> labels, returned |-> FALSE, panicked |-> FALSE ]
        ELSE IF partition > 0 /\ retained[partition].arrival_time = new_label.arrival_time
        THEN IF new_label.cost < retained[partition].cost
             THEN [ labels |-> [retained EXCEPT ![partition] = new_label],
                    returned |-> TRUE, panicked |-> FALSE ]
             ELSE [ labels |-> retained, returned |-> FALSE, panicked |-> TRUE ]
        ELSE IF room.refused
        THEN [ labels |-> room.labels, returned |-> FALSE, panicked |-> FALSE ]
        ELSE IF Len(room.labels) >= N
        THEN [ labels |-> room.labels, returned |-> FALSE, panicked |-> TRUE ]
        ELSE [ labels |-> Insert(room.labels, partition, new_label),
               returned |-> TRUE, panicked |-> FALSE ]

\* No query runs while the bag is exercised.
QueryIdle ==
    /\ network = Idle
    /\ query = Idle
    /\ pc = "bag"
    /\ raptor = Idle
    /\ raptor_journey = None
    /\ csa = Idle
    /\ csa_result = None

\* An empty Bag<N>, N from 1 to MaxN.
InitBag ==
    /\ QueryIdle
    /\ bag = <<>>
    /\ bag_cap \in 1..MaxN
    /\ bag_call = Idle
    /\ FeedIdle

\* One call bag.add(new_label); bag_call keeps the label, the labels before
\* the call and what the call returned.
BagAdd ==
    /\ pc = "bag"
    /\ \E new_label \in Labels :
          LET out == add(bag, bag_cap, new_label)
          IN  /\ bag' = out.labels
              /\ bag_call' = [ new_label |-> new_label, before |-> bag,
                               returned |-> out.returned, panicked |-> out.panicked ]
    /\ UNCHANGED <<query_vars, bag_cap, feed_vars>>

NextBag == BagAdd

SpecBag == InitBag /\ [][NextBag]_vars

(***************************************************************************)
(* Network::new from a parsed feed (src/src/network.rs:209-440).  The feed *)
(* holds trips (route id, service id, direction, stop times) and the       *)
(* services: a calendar entry (weekday mask and validity range) and/or a   *)
(* list of calendar dates.  Dates are day numbers of one week, so the      *)
(* weekday of a date is the date itself.  The feed keeps its trips and     *)
(* routes in hash maps: the order in which Network::new meets them is any  *)
(* order.                                                                  *)
(***************************************************************************)
MaxDate == 1
Dates == 0..MaxDate

\* The orders in which a set can be iterated.
Perms(S) == { f \in [1..Cardinality(S) -> S] : \A i, j \in DOMAIN f : f[i] = f[j] => i = j }

\* Stop sequences of the trips of a feed: 2 or 3 different stops in any order.
TripShapes ==
    { sh \in [1..2 -> 0..(NumStops - 1)] \cup [1..3 -> 0..(NumStops - 1)] :
        \A i, j \in DOMAIN sh : sh[i] = sh[j] => i = j }

\* The stop times of a trip over the stops sh that leaves the first stop at
\* t0 and takes hop for each hop, without dwelling.
RawStopTimes(sh, t0, hop) ==
    [ i \in DOMAIN sh |->
        [ stop |-> sh[i],
          arrival_time |-> t0 + (i - 1) * hop,
          departure_time |-> t0 + (i - 1) * hop ] ]

RawTrips(route_ids, service_ids, shapes, starts, hops) ==
    { [ route_id |-> r, service_id |-> s, direction_id |-> d,
        stop_times |-> RawStopTimes(sh, t0, hop) ] :
        r \in route_ids, s \in service_ids, d \in {"Inbound", "Outbound"},
        sh \in shapes, t0 \in starts, hop \in hops }

\* A service that runs on every date.
Daily == [weekdays |-> Dates, start_date |-> 0, end_date |-> MaxDate]

Calendars == [weekdays : SUBSET Dates, start_date : Dates, end_date : Dates]

\* The calendar dates of a service: no entry, or one entry for a date.
CalendarDates ==
    { {} } \cup { { [date |-> d, exception_type |-> e] } : d \in Dates, e \in {"Added", "Deleted"} }

\* Feeds whose timetable varies: one or two route ids, trips over any stop
\* sequence, every trip on the daily service.
TimetableFeeds ==
    UNION { [ trips : [1..n -> RawTrips(0..1, {1}, TripShapes, 0..(MaxTime - 1), 0..1)],
              calendar : { [s \in {1} |-> Some(Daily)] },
              calendar_dates : { [s \in {1} |-> None] } ] : n \in 1..MaxTrips }

\* Feeds whose services vary: trip i runs on service i, over the stops 0, 1.
ServiceFeeds ==
    UNION { { f \in [ trips : [1..n -> RawTrips({0}, 1..n, {<<0, 1>>}, {0}, {0})],
                      calendar : [1..n -> {None} \cup { Some(c) : c \in Calendars }],
                      calendar_dates : [1..n -> {None} \cup { Some(l) : l \in CalendarDates }] ] :
                \A i \in 1..n : f.trips[i].service_id = i /\ f.trips[i].direction_id = "Outbound" } :
            n \in 1..MaxTrips }

\* Calendar::valid_weekday: the weekday of the date is in the mask.
valid_weekday(calender, date) == (date % 7) \in calender.weekdays

\* does_trip_run with the calendar dates consulted for every service.
does_trip_run_Either(feed, trip, date) ==
    \/ /\ IsSome(feed.calendar[trip.service_id])
       /\ valid_weekday(Unwrap(feed.calendar[trip.service_id]), date)
       /\ Unwrap(feed.calendar[trip.service_id]).start_date <= date
       /\ date <= Unwrap(feed.calendar[trip.service_id]).end_date
    \/ /\ IsSome(feed.calendar_dates[trip.service_id])
       /\ \E calender_date \in Unwrap(feed.calendar_dates[trip.service_id]) :
             calender_date.date = date

\* utils::does_trip_run, for a trip whose service has an entry.
does_trip_run(feed, trip, date) ==
    IF IsSome(feed.calendar[trip.service_id])
    THEN LET calender == Unwrap(feed.calendar[trip.service_id])
         IN  /\ valid_weekday(calender, date)
             /\ calender.start_date <= date
             /\ date <= calender.end_date
    ELSE IF IsSome(feed.calendar_dates[trip.service_id])
    THEN \E calender_date \in Unwrap(feed.calendar_dates[trip.service_id]) :
            calender_date.date = date
    ELSE FALSE

\* utils.rs:44: the service of the trip has neither entry, the assertion fails.
ServiceMissing(feed, trip) ==
    /\ ~IsSome(feed.calendar[trip.service_id])
    /\ ~IsSome(feed.calendar_dates[trip.service_id])

\* network.rs:241-244: the trips that are not skipped.
Retained(feed, date) ==
    { id \in DOMAIN feed.trips : does_trip_run(feed, feed.trips[id], date) }

\* network.rs:282-301: the key under which a trip is filed.  stop_field has
\* the direction bit and one bit per stop of the trip, so two trips get the
\* same field when they have the same direction and the same set of stops;
\* the fields are kept in one map per route id.
stop_field(trip) ==
    [ inbound |-> trip.direction_id = "Inbound",
      stops |-> { trip.stop_times[i].stop : i \in DOMAIN trip.stop_times } ]

RouteKey(trip) == <<trip.route_id, stop_field(trip)>>

\* The values of the route maps: the retained trips, grouped by key.
RouteTrips(feed, date) ==
    { { id \in Retained(feed, date) : RouteKey(feed.trips[id]) = RouteKey(feed.trips[j]) } :
        j \in Retained(feed, date) }

\* network.rs:329-336 for one group: first_trip is the trip that was filed
\* first, and the trips are sorted by the arrival time at their first stop.
RouteTripOrders(feed, group) ==
    { [first_trip |-> f, trip_ids |-> o] :
        f \in group,
        o \in { p \in Perms(group) :
                  \A i \in 1..(Len(p) - 1) :
                      feed.trips[p[i]].stop_times[1].arrival_time
                          <= feed.trips[p[i + 1]].stop_times[1].arrival_time } }

\* The route id of the trips of a group.
RouteIdOf(feed, group) == feed.trips[CHOOSE id \in group : TRUE].route_id

\* network.rs:328: the groups in the order of the two loops, those of one
\* route id next to one another.
RouteOrders(feed, date) ==
    { go \in Perms(RouteTrips(feed, date)) :
        \A i, j, m \in 1..Len(go) :
            (i < j /\ j < m /\ RouteIdOf(feed, go[i]) = RouteIdOf(feed, go[m]))
                => RouteIdOf(feed, go[j]) = RouteIdOf(feed, go[i]) }

\* The routes Network::new can lay out for a feed: for every group, in one
\* of the orders, the first trip and the sorted trips.
Layouts(feed, date) ==
    UNION { { c \in [1..Len(go) -> UNION { RouteTripOrders(feed, g) : g \in RouteTrips(feed, date) }] :
                \A i \in 1..Len(go) : c[i] \in RouteTripOrders(feed, go[i]) } :
            go \in RouteOrders(feed, date) }

\* network.rs:369-396: the stops of a route are those of first_trip, the
\* stop times those of each trip in its own order.
LaidOut(feed, layout) ==
    [ r \in 1..Len(layout) |->
        [ stops |-> [i \in DOMAIN feed.trips[layout[r].first_trip].stop_times |->
                        feed.trips[layout[r].first_trip].stop_times[i].stop],
          trips |-> [t \in 1..Len(layout[r].trip_ids) |->
                        [i \in DOMAIN feed.trips[layout[r].trip_ids[t]].stop_times |->
                            StopTime(feed.trips[layout[r].trip_ids[t]].stop_times[i].arrival_time,
                                     feed.trips[layout[r].trip_ids[t]].stop_times[i].departure_time)]] ] ]

InitNew ==
    /\ gtfs \in [ feed : TimetableFeeds \cup ServiceFeeds,
                  journey_date : Dates,
                  default_transfer_time : 0..MaxTransfer ]
    /\ history = Idle
    /\ network = Idle
    /\ query = Idle
    /\ pc = "network_new"
    /\ raptor = Idle
    /\ raptor_journey = None
    /\ csa = Idle
    /\ csa_result = None
    /\ BagIdle
    /\ mc = Idle

\* Network::new.  history.trip_ids keeps Route.trip_ids (network.rs:375),
\* route by route.
NewNetwork ==
    /\ pc = "network_new"
    /\ IF \E id \in DOMAIN gtfs.feed.trips : ServiceMissing(gtfs.feed, gtfs.feed.trips[id])
       THEN /\ pc' = "panicked"
            /\ UNCHANGED <<network, history>>
       ELSE \E layout \in Layouts(gtfs.feed, gtfs.journey_date) :
              /\ network' = NetworkNew(LaidOut(gtfs.feed, layout),
                                       [s \in 0..(NumStops - 1) |-> gtfs.default_transfer_time])
              /\ history' = [trip_ids |-> ZeroBased([r \in 1..Len(layout) |-> layout[r].trip_ids])]
              /\ pc' = "built"
    /\ UNCHANGED <<gtfs, query, raptor, raptor_journey, csa, csa_result, bag_vars, mc>>

NextNew == NewNetwork

SpecNew == InitNew /\ [][NextNew]_vars

(***************************************************************************)
(* A line: one route that calls at every stop of a network with one stop   *)
(* more, served by one trip, every stop with the default transfer time.    *)
(* The query is answered as before.                                        *)
(***************************************************************************)
LineStops == NumStops + 1

InitLine ==
    /\ \E trip \in TripsOver(LineStops), d \in 0..MaxTransfer :
          network = NetworkNew(<< [stops |-> [i \in 1..LineStops |-> i - 1], trips |-> <<trip>>] >>,
                               [s \in 0..(LineStops - 1) |-> d])
    /\ query \in [start : Stops, start_time : 0..MaxStartTime, end : Stops]
    /\ pc = "raptor_query"
    /\ raptor = Idle
    /\ raptor_journey = None
    /\ csa = Idle
    /\ csa_result = None
    /\ BagIdle
    /\ FeedIdle

SpecLine == InitLine /\ [][Next]_vars

(***************************************************************************)
(* A busy route: one route over every stop, served by one trip more than   *)
(* the feeds above hold, in the order Network::new leaves them.  The query *)
(* is answered by Raptor::query.                                           *)
(***************************************************************************)
BusyTrips == MaxTrips + 1

InitBusy ==
    /\ \E r \in { r \in RoutesWith(BusyTrips) : Len(r.stops) = NumStops },
          d \in 0..MaxTransfer :
          network = NetworkNew(<<r>>, [s \in 0..(NumStops - 1) |-> d])
    /\ query \in [start : Stops, start_time : 0..MaxStartTime, end : Stops]
    /\ pc = "raptor_query"
    /\ raptor = Idle
    /\ raptor_journey = None
    /\ csa = Idle
    /\ csa_result = None
    /\ BagIdle
    /\ FeedIdle

NextBusy ==
    \/ RaptorStart
    \/ RaptorRound
    \/ RaptorReturn

SpecBusy == InitBusy /\ [][NextBusy]_vars

(***************************************************************************)
(* A chain: stops 0 .. K, a direct route from stop 0 to stop K - 1, a      *)
(* route from stop K - 1 to stop K, and one route from every stop below    *)
(* K - 1 to the next one; every route has one trip, the routes of the      *)
(* chain all run to the same times.  The query is answered by              *)
(* Raptor::query.                                                          *)
(***************************************************************************)
ChainStops == K + 1

ChainFeed(direct, last, hop) ==
    << [stops |-> <<0, K - 1>>, trips |-> <<direct>>],
       [stops |-> <<K - 1, K>>, trips |-> <<last>>] >>
    \o [i \in 1..(K - 1) |-> [stops |-> <<i - 1, i>>, trips |-> <<hop>>]]

InitChain ==
    /\ \E direct \in TripsOver(2), last \in TripsOver(2), hop \in TripsOver(2),
          d \in 0..MaxTransfer :
          network = NetworkNew(ChainFeed(direct, last, hop), [s \in 0..(ChainStops - 1) |-> d])
    /\ query \in [start : Stops, start_time : 0..MaxStartTime, end : Stops]
    /\ pc = "raptor_query"
    /\ raptor = Idle
    /\ raptor_journey = None
    /\ csa = Idle
    /\ csa_result = None
    /\ BagIdle
    /\ FeedIdle

SpecChain == InitChain /\ [][NextBusy]_vars

(***************************************************************************)
(* Transfer time overrides: a network of one route is built with the       *)
(* default transfer time at every stop, set_transfer_time_for_stop is      *)
(* called once, before or after build_connections, and a query is          *)
(* answered by csa_query.  history keeps the call and the transfer times   *)
(* before it.                                                              *)
(***************************************************************************)
OneRouteFeeds == { <<r>> : r \in UNION { RoutesWith(n) : n \in 1..MaxTrips } }

\* A setter that writes every stop.
set_transfer_time_for_stop_AllStops(transfer_times, stop_idx, transfer_time) ==
    [s \in DOMAIN transfer_times |-> transfer_time]

\* Network::set_transfer_time_for_stop, on the stop index of stop_id.
set_transfer_time_for_stop(transfer_times, stop_idx, transfer_time) ==
    [transfer_times EXCEPT ![stop_idx] = transfer_time]

InitTransfer ==
    /\ \E feed \in OneRouteFeeds, d \in 0..MaxTransfer :
          network = NetworkNew(feed, [s \in 0..(NumStops - 1) |-> d])
    /\ query \in [start : Stops, start_time : 0..MaxStartTime, end : Stops]
    /\ pc = "build_connections"
    /\ raptor = Idle
    /\ raptor_journey = None
    /\ csa = Idle
    /\ csa_result = None
    /\ BagIdle
    /\ FeedIdle

SetTransferTime ==
    /\ pc \in {"build_connections", "csa_query"}
    /\ history = Idle
    /\ \E stop_idx \in Stops, transfer_time \in 0..MaxTransfer :
          /\ network' = [network EXCEPT !.transfer_times =
                            set_transfer_time_for_stop(@, stop_idx, transfer_time)]
          /\ history' = [ stop_idx |-> stop_idx,
                          transfer_time |-> transfer_time,
                          before_build |-> pc = "build_connections",
                          transfer_times |-> network.transfer_times ]
    /\ UNCHANGED <<query, pc, raptor, raptor_journey, csa, csa_result, bag_vars, gtfs, mc>>

NextTransfer ==
    \/ SetTransferTime
    \/ BuildConnections
    \/ CsaStart
    \/ CsaStep
    \/ CsaReturn

SpecTransfer == InitTransfer /\ [][NextTransfer]_vars

(***************************************************************************)
(* The multi-criterion RAPTOR query.  Its body (mc_raptor_query, exported  *)
(* by src/src/lib.rs:11) is not among the sources; it is modelled from     *)
(* section 4.5 of the specification, on Bag::add and Bag::dominates of     *)
(* src/src/multicriteria.rs.  Its result is rebuilt by                     *)
(* Journey::from_tau_bag with JourneyPreferences::default                  *)
(* (src/src/journey.rs).  Costs are small integers.                        *)
(***************************************************************************)
\* Bag::dominates
BagDominates(labels, other_label) ==
    \E i \in 1..Len(labels) : dominates(labels[i], other_label)

\* The labels added to a bag one after another; changed tells whether an
\* add returned true.
RECURSIVE AddAll(_, _, _, _, _)
AddAll(labels, N, new_labels, i, changed) ==
    IF i > Len(new_labels) THEN [labels |-> labels, changed |-> changed]
    ELSE LET out == add(labels, N, new_labels[i])
         IN  AddAll(out.labels, N, new_labels, i + 1, changed \/ out.returned)

\* Section 4.5, step 1: the riders of the route bag, moved on to stop order
\* stop_order of the route.
McAdvance(route, stop_order, route_bag, costs, N) ==
    AddAll(<<>>, N,
           [ i \in 1..Len(route_bag) |->
               LET trip_order == Unwrap(route_bag[i].boarding).trip.trip_order
               IN  [ arrival_time |-> get_trip(route, trip_order)[stop_order].arrival_time,
                     cost |-> route_bag[i].cost
                                + costs[get_stop_times_index(route, trip_order, stop_order)],
                     boarding |-> route_bag[i].boarding ] ],
           1, FALSE).labels

\* Section 4.5, step 2: the riders not dominated by the bag of the stop nor
\* by the bag of end are added to tau[stop][k] and to tau_star[stop].
RECURSIVE McDeliver(_, _, _, _, _, _, _)
McDeliver(st, k, stop_idx, end, route_bag, N, i) ==
    IF i > Len(route_bag) THEN st
    ELSE LET label == route_bag[i]
             pruned == \/ BagDominates(st.tau_star[stop_idx], label)
                       \/ BagDominates(st.tau_star[end], label)
             round == add(st.tau[stop_idx][k], N, label)
             best == add(st.tau_star[stop_idx], N, label)
         IN  McDeliver(
                 IF pruned THEN st
                 ELSE [ tau |-> [st.tau EXCEPT ![stop_idx][k] = round.labels],
                        tau_star |-> [st.tau_star EXCEPT ![stop_idx] = best.labels],
                        marked_stops |-> [st.marked_stops EXCEPT ![stop_idx] =
                                             @ \/ round.returned \/ best.returned] ],
                 k, stop_idx, end, route_bag, N, i + 1)

\* Section 4.5, step 3: the labels of tau[stop][k-1] board the earliest trip
\* they can, after the transfer time of the stop when k > 1.
McBoardings(previous, k, route_idx, stop_order) ==
    LET route == network.routes[route_idx]
        stop_idx == get_stops(route)[stop_order]
        found(label) == FoundTripIdx(route, stop_order, route.num_trips,
                                     SaturatingAdd(label.arrival_time,
                                                   CurrentTransferTime(k, stop_idx)))
        boards == SelectSeq(previous, LAMBDA label : IsSome(found(label)))
    IN  [ i \in 1..Len(boards) |->
            [ arrival_time |-> boards[i].arrival_time,
              cost |-> boards[i].cost,
              boarding |-> Some([ boarded_stop |-> stop_idx,
                                  boarded_stop_order |-> stop_order,
                                  boarded_time |-> Unwrap(found(boards[i])).departure_time,
                                  trip |-> [ route_idx |-> route_idx,
                                             trip_order |-> Unwrap(found(boards[i])).trip_idx ] ]) ] ]

\* Section 4.5: the walk along one route from stop order stop_order.
RECURSIVE McScanRoute(_, _, _, _, _, _, _, _)
McScanRoute(st, k, route_idx, stop_order, route_bag, end, costs, N) ==
    LET route == network.routes[route_idx]
    IN  IF stop_order >= route.num_stops THEN st
        ELSE LET stop_idx == get_stops(route)[stop_order]
                 riders == McAdvance(route, stop_order, route_bag, costs, N)
                 delivered == McDeliver(st, k, stop_idx, end, riders, N, 1)
                 boarded == AddAll(riders, N,
                                   McBoardings(st.tau[stop_idx][k - 1], k, route_idx, stop_order),
                                   1, FALSE).labels
             IN  McScanRoute(delivered, k, route_idx, stop_order + 1, boarded, end, costs, N)

RECURSIVE McScanRoutes(_, _, _, _, _, _, _)
McScanRoutes(st, k, earliest, route_idx, end, costs, N) ==
    IF route_idx >= Size(network.routes) THEN st
    ELSE McScanRoutes(
            IF IsSome(earliest[route_idx])
            THEN McScanRoute(st, k, route_idx, Unwrap(earliest[route_idx]), <<>>, end, costs, N)
            ELSE st,
            k, earliest, route_idx + 1, end, costs, N)

\* Section 4.5, state: tau[start][0] and tau_star[start] hold the label
\* (start_time, 0, None).
McInit(start, start_time) ==
    [ k |-> 1,
      tau |-> [s \in Stops |-> [i \in 0..(K - 1) |->
                  IF s = start /\ i = 0
                  THEN << [arrival_time |-> start_time, cost |-> 0, boarding |-> None] >>
                  ELSE <<>>]],
      tau_star |-> [s \in Stops |->
                  IF s = start
                  THEN << [arrival_time |-> start_time, cost |-> 0, boarding |-> None] >>
                  ELSE <<>>],
      marked_stops |-> [s \in Stops |-> s = start] ]

\* Section 4.5, one round: the routes through the marked stops are scanned
\* from their earliest marked stop.
McRoundOf(m, end, costs, N) ==
    LET earliest == CollectRoutes([x \in RouteIdxs |-> None], m.marked_stops, 0)
        st == McScanRoutes([ tau |-> m.tau, tau_star |-> m.tau_star,
                             marked_stops |-> [s \in Stops |-> FALSE] ],
                           m.k, earliest, 0, end, costs, N)
    IN  [ k |-> m.k + 1, tau |-> st.tau, tau_star |-> st.tau_star,
          marked_stops |-> st.marked_stops ]

\* JourneyPreferences::default: the utility of a label is its arrival time.
DefaultUtility(label, start_time) == label.arrival_time

\* JourneyPreferences::best_label: among the labels that arrive before
\* next_boarding_time, the first one of the least utility.
best_label(next_boarding_time, labels, start_time) ==
    LET early == { i \in 1..Len(labels) : labels[i].arrival_time < next_boarding_time }
        best == { i \in early :
                    \A j \in early : DefaultUtility(labels[i], start_time)
                                        <= DefaultUtility(labels[j], start_time) }
    IN  IF early = {} THEN None ELSE Some(labels[SetMin(best)])

\* journey.rs:193-222: the walk of from_tau_bag from current_stop back to
\* start, last leg first.  A pass in which best_label finds no label leaves
\* current_stop and next_boarding as they are, so it repeats itself until
\* num_legs exceeds MAX_LEGS: it is cut short.
RECURSIVE FromTauBagWalk(_, _, _, _, _, _)
FromTauBagWalk(tau, start, current_stop, num_legs, next_boarding, start_time) ==
    IF current_stop = start THEN [err |-> "", legs |-> <<>>]
    ELSE IF num_legs >= MAX_LEGS THEN [err |-> "InfiniteLoop", legs |-> <<>>]
    ELSE LET next_boarding_time == IF IsSome(next_boarding)
                                   THEN Unwrap(next_boarding).boarded_time
                                   ELSE TimestampMax
             found == best_label(next_boarding_time, tau[current_stop], start_time)
         IN  IF found = None THEN [err |-> "InfiniteLoop", legs |-> <<>>]
             ELSE LET current_tau == Unwrap(found)
                  IN  IF current_tau.boarding = None THEN [err |-> "", legs |-> <<>>]
                      ELSE LET boarded_leg == Unwrap(current_tau.boarding)
                               route == network.routes[boarded_leg.trip.route_idx]
                               aso == calculate_arrival_stop_order(route, boarded_leg, current_stop)
                               rest == FromTauBagWalk(tau, start, boarded_leg.boarded_stop,
                                                      num_legs + 1, Some(boarded_leg), start_time)
                               leg == [ boarded_stop |-> boarded_leg.boarded_stop,
                                        boarded_stop_order |-> boarded_leg.boarded_stop_order,
                                        boarded_time |-> boarded_leg.boarded_time,
                                        arrival_stop |-> current_stop,
                                        arrival_stop_order |-> Unwrap(aso),
                                        arrival_time |-> current_tau.arrival_time,
                                        transfer_time |->
                                            IF IsSome(next_boarding)
                                            THEN Some(WrappingSub(Unwrap(next_boarding).boarded_time,
                                                                  current_tau.arrival_time))
                                            ELSE None,
                                        trip |-> boarded_leg.trip ]
                           IN  IF aso = None THEN [err |-> "panic", legs |-> <<>>]
                               ELSE IF rest.err # "" THEN rest
                               ELSE [err |-> "", legs |-> <<leg>> \o rest.legs]

\* Journey::from_tau_bag
from_tau_bag(tau, start, end) ==
    IF tau[end] = <<>> THEN JourneyErr("NoJourneyFound")
    ELSE LET start_time == tau[start][1].arrival_time
             journey_cost == Unwrap(best_label(TimestampMax, tau[end], start_time)).cost
             walk == FromTauBagWalk(tau, start, end, 0, None, start_time)
         IN  IF walk.err # "" THEN JourneyErr(walk.err)
             ELSE JourneyFrom(Reverse(walk.legs), journey_cost)

\* The cost arrays of the queries: no cost anywhere, or a cost that grows
\* with the position in stop_times.
CostArrays ==
    { [i \in DOMAIN network.stop_times |-> 0], [i \in DOMAIN network.stop_times |-> i % (MaxCost + 1)] }

InitMc ==
    /\ \E feed \in Feeds(MaxTrips) \ {<<>>}, d \in 0..MaxTransfer :
          network = NetworkNew(feed, [s \in 0..(NumStops - 1) |-> d])
    /\ query \in [start : Stops, start_time : 0..MaxStartTime, end : Stops]
    /\ \E costs \in CostArrays, N \in {1, MaxN} :
          mc = [costs |-> costs, N |-> N, state |-> Idle, result |-> None]
    /\ pc = "mc_raptor_query"
    /\ raptor = Idle
    /\ raptor_journey = None
    /\ csa = Idle
    /\ csa_result = None
    /\ BagIdle
    /\ gtfs = Idle
    /\ history = Idle

\* mc_raptor_query, entry.
McRaptorStart ==
    /\ pc = "mc_raptor_query"
    /\ mc' = [mc EXCEPT !.state = McInit(query.start, query.start_time)]
    /\ pc' = "mc_raptor_round"
    /\ UNCHANGED <<query_vars_but_pc, bag_vars, gtfs, history>>

\* mc_raptor_query, one round.
McRaptorRound ==
    /\ pc = "mc_raptor_round"
    /\ mc.state.k < K
    /\ mc' = [mc EXCEPT !.state = McRoundOf(mc.state, query.end, mc.costs, mc.N)]
    /\ pc' = IF is_zero(mc'.state.marked_stops) \/ mc'.state.k >= K
             THEN "mc_raptor_reconstruct" ELSE "mc_raptor_round"
    /\ UNCHANGED <<query_vars_but_pc, bag_vars, gtfs, history>>

\* mc_raptor_query, reconstruction and return.
McRaptorReturn ==
    /\ pc = "mc_raptor_reconstruct"
    /\ mc' = [mc EXCEPT !.result = Some(from_tau_bag(mc.state.tau_star, query.start, query.end))]
    /\ pc' = "raptor_query"
    /\ UNCHANGED <<query_vars_but_pc, bag_vars, gtfs, history>>

NextMc ==
    \/ McRaptorStart
    \/ McRaptorRound
    \/ McRaptorReturn
    \/ Next

SpecMc == InitMc /\ [][NextMc]_vars

(***************************************************************************)
(* The same query run twice (src/benches/raptor.rs: the benchmark calls    *)
(* raptor_query and csa_query over and over on one &Network).              *)
(***************************************************************************)
InitRerun ==
    /\ \E feed \in Feeds(MaxTrips) \ {<<>>}, d \in 0..MaxTransfer :
          network = NetworkNew(feed, [s \in 0..(NumStops - 1) |-> d])
    /\ query \in [start : Stops, start_time : 0..MaxStartTime, end : Stops]
    /\ pc = "raptor_query"
    /\ raptor = Idle
    /\ raptor_journey = None
    /\ csa = Idle
    /\ csa_result = None
    /\ BagIdle
    /\ FeedIdle

\* The caller keeps what the queries returned and calls them again with the
\* same arguments; whatever the first calls left behind is still there.
QueryAgain ==
    /\ pc = "done"
    /\ history = Idle
    /\ history' = [ network |-> network,
                    raptor_journey |-> raptor_journey,
                    csa_result |-> csa_result ]
    /\ pc' = "raptor_query"
    /\ UNCHANGED <<query_vars_but_pc, bag_vars, gtfs, mc>>

\* The caller builds the connections once, before the first csa_query.
BuildConnectionsOnce ==
    /\ history = Idle
    /\ BuildConnections

\* The second time round the caller goes from raptor_query straight to
\* csa_query: the connections are already there.
KeepConnections ==
    /\ pc = "build_connections"
    /\ history # Idle
    /\ pc' = "csa_query"
    /\ UNCHANGED <<query_vars_but_pc, bag_vars, feed_vars>>

NextRerun ==
    \/ RaptorStart
    \/ RaptorRound
    \/ RaptorReturn
    \/ BuildConnectionsOnce
    \/ CsaStart
    \/ CsaStep
    \/ CsaReturn
    \/ QueryAgain
    \/ KeepConnections

SpecRerun == InitRerun /\ [][NextRerun]_vars

(***************************************************************************)
(* Properties.                                                             *)
(***************************************************************************)
RaptorReturned == raptor_journey # None
CsaReturned == csa_result # None
RaptorLegs == Unwrap(raptor_journey).legs
CsaLegs == Unwrap(csa_result).legs

\* The data invariants of the timetable: within a trip arrival <= departure
\* at a stop and departure at a stop <= arrival at the next one; the trips of
\* a route do not overtake one another at any stop.
DataInvariants ==
    \A r \in RouteIdxs :
        LET route == network.routes[r]
        IN  /\ \A t \in 0..(route.num_trips - 1), o \in 0..(route.num_stops - 1) :
                  /\ get_trip(route, t)[o].arrival_time <= get_trip(route, t)[o].departure_time
                  /\ o + 1 < route.num_stops =>
                        get_trip(route, t)[o].departure_time <= get_trip(route, t)[o + 1].arrival_time
            /\ \A a \in 0..(route.num_trips - 1), b \in 0..(route.num_trips - 1) :
                  a < b => \A o \in 0..(route.num_stops - 1) :
                      /\ get_trip(route, a)[o].departure_time <= get_trip(route, b)[o].departure_time
                      /\ get_trip(route, a)[o].arrival_time <= get_trip(route, b)[o].arrival_time

\* A sequence <<F(0), ..., F(n - 1)>>.
RECURSIVE Tabulate(_, _)
Tabulate(F(_), n) == IF n = 0 THEN <<>> ELSE Append(Tabulate(F, n - 1), F(n - 1))

\* The arrival times of the rides that end at stop s and are boarded where
\* ready(p), the earliest time a trip may be boarded at stop p, allows it.
RideArrivals(s, ready(_)) ==
    UNION { UNION { { get_trip(network.routes[r], t)[j].arrival_time :
                        j \in { j \in 0..(network.routes[r].num_stops - 1) :
                                 /\ get_stops(network.routes[r])[j] = s
                                 /\ \E i \in 0..(j - 1) :
                                       LET p == get_stops(network.routes[r])[i]
                                       IN  /\ ready(p) < TimestampMax
                                           /\ get_trip(network.routes[r], t)[i].departure_time
                                                >= ready(p) } } :
                    t \in 0..(network.routes[r].num_trips - 1) } :
            r \in RouteIdxs }

\* The minimum arrival time at every stop over the journeys of at most n
\* trips that board no trip before start_time, pay no transfer time at the
\* origin and wait transfer_times[s] before they change trips at s
\* (TimestampMax where there is no such journey); position s + 1 is stop s.
RECURSIVE EarliestArrivalUnder(_, _)
EarliestArrivalUnder(n, transfer_times) ==
    IF n = 0
    THEN Tabulate(LAMBDA s : IF s = query.start THEN query.start_time ELSE TimestampMax,
                  Size(network.stops))
    ELSE LET prev == EarliestArrivalUnder(n - 1, transfer_times)
             ready(p) == IF p = query.start THEN query.start_time
                         ELSE SaturatingAdd(prev[p + 1], transfer_times[p])
         IN  Tabulate(LAMBDA s : SetMin({prev[s + 1]} \cup RideArrivals(s, ready)), Size(network.stops))

EarliestArrival(n) == EarliestArrivalUnder(n, network.transfer_times)

\* C1: on a timetable that satisfies the data invariants and for start # end,
\* Raptor::query ends with the minimum arrival time at end over all journeys
\* of at most K - 1 trips, and returns no leg exactly when there is no such
\* journey.
C1_RaptorEarliestArrival ==
    (pc = "build_connections" /\ query.start # query.end /\ DataInvariants) =>
        LET best == EarliestArrival(K - 1)[query.end + 1]
        IN  /\ ~Unwrap(raptor_journey).diverges
            /\ (RaptorLegs = <<>>) <=> (best = TimestampMax)
            /\ RaptorLegs # <<>> => Last(RaptorLegs).arrival_time = best

\* A two-leg journey with a change of trips is returned for such a query.
C1_Witness ==
    /\ pc = "build_connections" /\ query.start # query.end /\ DataInvariants
    /\ Len(RaptorLegs) = 2
    /\ network.transfer_times[RaptorLegs[1].arrival_stop] > 0
    /\ Last(RaptorLegs).arrival_time = EarliestArrival(K - 1)[query.end + 1]

\* Both queries have returned for a query between two different stops.
BothReturned == pc = "done" /\ query.start # query.end

RaptorFound == RaptorLegs # <<>>
CsaFound == Unwrap(csa_result).status = "Ok" /\ CsaLegs # <<>>

\* C2: on a timetable that satisfies the data invariants, Raptor::query
\* returns a journey exactly when csa_query does, and when both do their
\* last legs arrive at the same time.
C2_RaptorAgreesWithCsa ==
    (BothReturned /\ DataInvariants) =>
        /\ RaptorFound <=> CsaFound
        /\ (RaptorFound /\ CsaFound) =>
              Last(RaptorLegs).arrival_time = Last(CsaLegs).arrival_time

\* The legs lead from start to end, each one boarded where the one before
\* it arrived.
Connected(legs, start, end) ==
    /\ legs[1].boarded_stop = start
    /\ Last(legs).arrival_stop = end
    /\ \A i \in 1..(Len(legs) - 1) : legs[i].arrival_stop = legs[i + 1].boarded_stop

\* C3: a journey of at least one leg returned by Raptor::query or by
\* csa_query starts at the queried start, ends at the queried end and boards
\* every leg where the leg before it arrived, the legs being in travel order.
C3_JourneyConnected ==
    /\ (RaptorReturned /\ RaptorFound) => Connected(RaptorLegs, query.start, query.end)
    /\ (CsaReturned /\ CsaFound) => Connected(CsaLegs, query.start, query.end)

\* Both queries have returned a journey that changes trips on the way.
C3_Witness ==
    /\ BothReturned
    /\ Len(RaptorLegs) = 2 /\ Connected(RaptorLegs, query.start, query.end)
    /\ CsaFound /\ Len(CsaLegs) = 2 /\ Connected(CsaLegs, query.start, query.end)

\* The trip a leg rides: Raptor::query names it by line and trip, csa_query
\* by its Trip.
RaptorTripOf(leg) == <<leg.line, leg.trip_order>>
CsaTripOf(leg) == leg.trip

\* Consecutive legs follow one another in time, and leave the transfer time
\* of the stop between them where the trip changes.
TransfersRespected(legs, TripOf(_)) ==
    \A i \in 1..(Len(legs) - 1) :
        /\ legs[i].arrival_time <= legs[i + 1].boarded_time
        /\ TripOf(legs[i]) # TripOf(legs[i + 1]) =>
              legs[i + 1].boarded_time - legs[i].arrival_time
                  >= network.transfer_times[legs[i].arrival_stop]

\* C4: on a timetable that satisfies the data invariants, in every journey
\* returned by Raptor::query or by csa_query a leg is boarded no earlier than
\* the leg before it arrived, and no earlier than the transfer time of the
\* stop after that arrival when the two legs are on different trips.
C4_TransfersRespected ==
    DataInvariants =>
        /\ RaptorReturned => TransfersRespected(RaptorLegs, RaptorTripOf)
        /\ (CsaReturned /\ CsaFound) => TransfersRespected(CsaLegs, CsaTripOf)

\* C5: after any sequence of add calls on an empty bag no stored label
\* dominates another one, the arrival times strictly increase and the costs
\* strictly decrease along the bag (so no two labels share an arrival time),
\* and the bag holds at most N labels.
C5_BagParetoSorted ==
    /\ Len(bag) <= bag_cap
    /\ \A i \in 1..Len(bag), j \in 1..Len(bag) : i # j => ~dominates(bag[i], bag[j])
    /\ \A i \in 1..(Len(bag) - 1) :
          /\ bag[i].arrival_time < bag[i + 1].arrival_time
          /\ bag[i].cost > bag[i + 1].cost

\* A full bag of three labels out of which the last call removed two labels
\* that the new label dominates.
C5_Witness ==
    /\ bag_call # Idle
    /\ Len(bag_call.before) = MaxN /\ Len(bag) = MaxN - 1
    /\ bag_call.returned

\* C6: add returns true exactly when the labels after the call differ from
\* the labels before it; after it returned false the labels are the same
\* sequence as before.
C6_AddReturnsChanged ==
    bag_call # Idle =>
        /\ bag_call.returned <=> (bag # bag_call.before)
        /\ ~bag_call.returned => bag = bag_call.before

\* add returned false for a label that no stored label dominates: the bag
\* was full and the label would have been the last one.
C6_Witness ==
    /\ bag_call # Idle
    /\ ~bag_call.returned
    /\ ~\E i \in 1..Len(bag_call.before) : dominates(bag_call.before[i], bag_call.new_label)
    /\ bag = bag_call.before

\* The labels of a sequence.
Stored(labels) == { labels[i] : i \in 1..Len(labels) }

\* C7: on a bag of fewer than N labels add returns false exactly when a
\* stored label dominates the new one, and otherwise returns true and the
\* new label is stored; on an empty bag it returns true and leaves one label.
C7_AddBelowCapacity ==
    (bag_call # Idle /\ Len(bag_call.before) < bag_cap) =>
        /\ ~bag_call.returned <=>
              \E l \in Stored(bag_call.before) : dominates(l, bag_call.new_label)
        /\ bag_call.returned => bag_call.new_label \in Stored(bag)
        /\ bag_call.before = <<>> => (bag_call.returned /\ Len(bag) = 1)
        /\ ~bag_call.panicked

\* A label of the same arrival time and a lower cost replaced a stored label
\* in a bag that was not full.
C7_Witness ==
    /\ bag_call # Idle /\ Len(bag_call.before) < bag_cap
    /\ bag_call.returned
    /\ Len(bag) = Len(bag_call.before)
    /\ \E l \in Stored(bag_call.before) :
          l.arrival_time = bag_call.new_label.arrival_time /\ l.cost > bag_call.new_label.cost

\* start_time is later than every departure of the timetable.
LateStart ==
    \A i \in DOMAIN network.stop_times : network.stop_times[i].departure_time < query.start_time

\* No sequence of trips leads from start to end, however short the changes
\* between them: none that boards each trip at or after start_time and at
\* or after the arrival of the trip before it.
NoTripSequence ==
    EarliestArrivalUnder(network.num_trips, [s \in Stops |-> 0])[query.end + 1] = TimestampMax

RaptorNoJourney == RaptorLegs = <<>> /\ ~Unwrap(raptor_journey).diverges
CsaNoJourney == Unwrap(csa_result).status = "NoJourneyFound"

C9_SameStopEmptyJourney ==
    (pc = "done" /\ query.start = query.end) =>
        /\ Unwrap(csa_result).status = "Ok"
        /\ CsaLegs = <<>>
        /\ Unwrap(csa_result).duration = 0
        /\ Unwrap(csa_result).cost = 0
        /\ RaptorLegs = <<>>
        /\ ~Unwrap(raptor_journey).diverges

\* Both queries have returned for start = end on a timetable with a trip
\* that leaves the stop at or after start_time.
C9_Witness ==
    /\ pc = "done" /\ query.start = query.end
    /\ Unwrap(csa_result) = JourneyEmpty
    /\ RaptorLegs = <<>>
    /\ \E r \in RouteIdxs : \E t \in 0..(network.routes[r].num_trips - 1) :
          \E o \in 0..(network.routes[r].num_stops - 2) :
              /\ get_stops(network.routes[r])[o] = query.start
              /\ get_trip(network.routes[r], t)[o].departure_time >= query.start_time

\* Trip t of route r calls at end after some other stop.
ReachesEnd(r, t) ==
    \E j \in 1..(network.routes[r].num_stops - 1) : get_stops(network.routes[r])[j] = query.end

\* Trip t of route r departs start at exactly start_time and calls at end
\* later on.
DepartsAtStartTime(r, t) ==
    \E o \in 0..(network.routes[r].num_stops - 2) :
        /\ get_stops(network.routes[r])[o] = query.start
        /\ get_trip(network.routes[r], t)[o].departure_time = query.start_time
        /\ \E j \in (o + 1)..(network.routes[r].num_stops - 1) :
              get_stops(network.routes[r])[j] = query.end

Trips == { <<r, t>> \in RouteIdxs \X (0..(MaxTrips - 1)) : t < network.routes[r].num_trips }

\* C10: when a trip departs start at exactly start_time and reaches end, and
\* no other trip reaches end, Raptor::query and csa_query both return a
\* journey of one leg on that trip, whatever the transfer times are.
C10_BoardableAtStartTime ==
    BothReturned =>
        \A rt \in Trips :
            ( /\ DepartsAtStartTime(rt[1], rt[2])
              /\ \A other \in Trips \ {rt} : ~ReachesEnd(other[1], other[2]) )
            => /\ Len(RaptorLegs) = 1
               /\ RaptorTripOf(RaptorLegs[1]) = rt
               /\ CsaFound
               /\ Len(CsaLegs) = 1
               /\ CsaLegs[1].trip = [route_idx |-> rt[1], trip_order |-> rt[2]]

\* C11: in every network built by Network::new, the trips of a route keep
\* their order at every stop of the route: for trip orders a < b and every
\* stop order s, trip a departs from s no later than trip b and arrives at
\* s no later than trip b.
C11_TripsOrdered ==
    pc = "built" =>
        \A r \in RouteIdxs :
            LET route == network.routes[r]
            IN  \A s \in 0..(route.num_stops - 1), a, b \in 0..(route.num_trips - 1) :
                    a < b =>
                        /\ get_trip(route, a)[s].departure_time <= get_trip(route, b)[s].departure_time
                        /\ get_trip(route, a)[s].arrival_time <= get_trip(route, b)[s].arrival_time

\* The trips placed in route r of the built network, as the feed has them.
PlacedTrips(r) == { gtfs.feed.trips[history.trip_ids[r][t]] : t \in DOMAIN history.trip_ids[r] }

\* The ordered stop sequence of a trip of the feed.
StopSequence(trip) == [i \in DOMAIN trip.stop_times |-> trip.stop_times[i].stop]

\* C12: in every network built by Network::new, all trips placed in one
\* route have the same ordered stop sequence, which is the stop sequence of
\* the route (of length num_stops), and the same direction.
C12_RouteIsOneStopSequence ==
    pc = "built" =>
        \A r \in RouteIdxs :
            \A trip \in PlacedTrips(r) :
                /\ Len(StopSequence(trip)) = network.routes[r].num_stops
                /\ ZeroBased(StopSequence(trip)) = get_stops(network.routes[r])
                /\ \A other \in PlacedTrips(r) :
                      /\ StopSequence(other) = StopSequence(trip)
                      /\ other.direction_id = trip.direction_id
\* The trips of the feed that Network::new placed in a route.
Placed == UNION { { history.trip_ids[r][t] : t \in DOMAIN history.trip_ids[r] } :
                  r \in DOMAIN history.trip_ids }

\* The weekly rule: the service has a calendar entry whose weekday mask has
\* the weekday of the journey date and whose validity range holds the date.
MatchesCalendar(id) ==
    LET entry == gtfs.feed.calendar[gtfs.feed.trips[id].service_id]
    IN  /\ entry # None
        /\ (gtfs.journey_date % 7) \in Unwrap(entry).weekdays
        /\ Unwrap(entry).start_date <= gtfs.journey_date
        /\ gtfs.journey_date <= Unwrap(entry).end_date

\* The date-list rule: the service has calendar dates, one of them the
\* journey date.
MatchesCalendarDates(id) ==
    LET entry == gtfs.feed.calendar_dates[gtfs.feed.trips[id].service_id]
    IN  /\ entry # None
        /\ gtfs.journey_date \in { e.date : e \in Unwrap(entry) }

HasBoth(id) ==
    /\ gtfs.feed.calendar[gtfs.feed.trips[id].service_id] # None
    /\ gtfs.feed.calendar_dates[gtfs.feed.trips[id].service_id] # None

\* C14 as claimed: Network::new retains a trip exactly when its service
\* matches the journey date under the weekly rule or under the date-list
\* rule, either one sufficing for a service that has both entries.
C14_RetainedIffEitherRule ==
    pc = "built" =>
        \A id \in DOMAIN gtfs.feed.trips :
            id \in Placed <=> (MatchesCalendar(id) \/ MatchesCalendarDates(id))

\* C14, amended: Network::new retains a trip exactly when its service
\* matches the journey date under the weekly rule, or has no calendar entry
\* and matches under the date-list rule; every retained trip is placed in
\* exactly one route.
C14_RetainedIffCalendarElseDates ==
    pc = "built" =>
        /\ \A id \in DOMAIN gtfs.feed.trips :
              id \in Placed <=>
                  \/ MatchesCalendar(id)
                  \/ ~HasBoth(id) /\ MatchesCalendarDates(id)
        /\ \A r1, r2 \in DOMAIN history.trip_ids :
              \A t1 \in DOMAIN history.trip_ids[r1], t2 \in DOMAIN history.trip_ids[r2] :
                  history.trip_ids[r1][t1] = history.trip_ids[r2][t2] => r1 = r2 /\ t1 = t2

\* A network is built from a feed with a trip retained by the weekly rule,
\* a trip retained by the date list alone, and the case the amendment is
\* about: a trip whose service has both entries, the date list naming the
\* journey date and the calendar not matching it, which is left out.
C14_Witness ==
    /\ pc = "built"
    /\ \E id \in DOMAIN gtfs.feed.trips :
          HasBoth(id) /\ ~MatchesCalendar(id) /\ MatchesCalendarDates(id) /\ id \notin Placed
    /\ \E id \in DOMAIN gtfs.feed.trips :
          (MatchesCalendar(id) \/ (~HasBoth(id) /\ MatchesCalendarDates(id))) /\ id \in Placed
\* build_connections has run.
ConnectionsBuilt == pc \in {"csa_query", "csa_sweep", "done"}

\* C13: after build_connections the connection list is sorted by departure
\* time, connections[i].departure_time <= connections[i+1].departure_time
\* for every adjacent pair, and it holds every connection of the timetable
\* once.
C13_ConnectionsSorted ==
    ConnectionsBuilt =>
        /\ \A i \in DOMAIN network.connections :
              (i + 1) \in DOMAIN network.connections =>
                  network.connections[i].departure_time <= network.connections[i + 1].departure_time
        /\ { network.connections[i] : i \in DOMAIN network.connections } = EmittedConnections
        /\ Size(network.connections) = Cardinality(EmittedConnections)

\* build_connections has sorted connections of two trips with three
\* different departure times, the later trip of the route order departing
\* before the earlier one ends: the sort interleaved the two trips.
C13_Witness ==
    /\ pc = "csa_query"
    /\ Size(network.connections) >= 3
    /\ Cardinality({ network.connections[i].departure_time : i \in DOMAIN network.connections }) >= 3
    /\ \E i, j \in DOMAIN network.connections :
          /\ i < j
          /\ network.connections[i].sequential_trip_idx > network.connections[j].sequential_trip_idx
\* The transfer time before boarding at the departure stop of a connection:
\* that of the departure stop, 0 when the departure stop is the start stop.
DepartureTransferTime(connection) ==
    IF connection.departure_idx = query.start THEN 0
    ELSE network.transfer_times[connection.departure_idx]

\* C19: when the CSA sweep handles a connection c of a trip that is not yet
\* reachable, the trip becomes reachable exactly when
\* tau[c.departure_stop].time + T <= c.departure_time, T being the transfer
\* time of c's departure stop, 0 when that stop is the start stop.
C19_ReachableFromDepartureStop ==
    [][ (CsaStep /\ ~csa.trip_reachable[network.connections[csa.pos].sequential_trip_idx]) =>
          LET connection == network.connections[csa.pos]
          IN  csa'.trip_reachable[connection.sequential_trip_idx] <=>
                  csa.tau[connection.departure_idx].time + DepartureTransferTime(connection)
                      <= connection.departure_time ]_vars
\* The stop orders of route r whose stop was marked in the previous round.
MarkedOrders(r) ==
    { o \in 0..(network.routes[r].num_stops - 1) :
        raptor.marked_stops[get_stops(network.routes[r])[o]] }

\* C20: in each RAPTOR round the routes scanned are exactly the routes
\* through a stop marked in the previous round, each from the smallest stop
\* order at which one of its stops was marked; a route through no marked
\* stop is not scanned.  The routes scanned in a round are those with an
\* entry in earliest_stop_for_route, scanned from that entry.
C20_ScansMarkedRoutes ==
    [][ RaptorRound =>
          \A r \in RouteIdxs :
              raptor'.earliest_stop_for_route[r] =
                  IF MarkedOrders(r) = {} THEN None ELSE Some(SetMin(MarkedOrders(r))) ]_vars
\* Following Boarding.boarded_stop from current_stop reaches start without
\* visiting a stop twice.
RECURSIVE LeadsToStart(_, _, _, _)
LeadsToStart(tau, start, current_stop, visited) ==
    IF current_stop = start THEN TRUE
    ELSE IF current_stop \in visited \/ tau[current_stop].boarding = None THEN FALSE
    ELSE LeadsToStart(tau, start, Unwrap(tau[current_stop].boarding).boarded_stop,
                      visited \cup {current_stop})

\* The sweep of csa_query is over and its parent pointers are those that
\* from_tau reads.
CsaSweepOver ==
    \/ pc = "csa_sweep" /\ ~CsaSweepGoesOn
    \/ pc = "done" /\ csa # Idle

\* C15: for the parent pointers left by the RAPTOR rounds and by the CSA
\* sweep, when end has a Boarding, following boarded_stop from end visits no
\* stop twice and reaches start; csa_query never returns InfiniteLoop.
C15_ParentPointersAcyclic ==
    /\ (pc = "raptor_reconstruct" /\ raptor.tau_star[query.end].boarding # None) =>
           LeadsToStart(raptor.tau_star, query.start, query.end, {})
    /\ (CsaSweepOver /\ csa.tau[query.end].boarding # None) =>
           LeadsToStart(csa.tau, query.start, query.end, {})
    /\ CsaReturned => Unwrap(csa_result).status # "InfiniteLoop"
\* The transfer times after the call history keeps: the earlier ones, with
\* the entry of the one stop overwritten.
OverriddenTransferTimes ==
    [ s \in DOMAIN history.transfer_times |->
        IF s = history.stop_idx THEN history.transfer_time ELSE history.transfer_times[s] ]

McResult == Unwrap(mc.result)
McFound == McResult.status = "Ok" /\ McResult.legs # <<>>

\* C17: on a timetable that satisfies the data invariants, for any cost
\* array and any bag capacity, the multi-criterion RAPTOR query with the
\* default preferences returns a journey whose last leg arrives at the
\* earliest arrival time found by Raptor::query and at the one found by
\* csa_query, whenever they find a journey.
C17_McRaptorArrivalAgrees ==
    (BothReturned /\ mc # Idle /\ DataInvariants) =>
        /\ RaptorFound =>
              McFound /\ Last(McResult.legs).arrival_time = Last(RaptorLegs).arrival_time
        /\ CsaFound =>
              McFound /\ Last(McResult.legs).arrival_time = Last(CsaLegs).arrival_time
\* The positions of the driver inside Raptor::query and csa_query.
InQuery == pc \in {"raptor_query", "raptor_round", "raptor_reconstruct", "csa_query", "csa_sweep"}

\* Both queries have returned a second time on the Network the first calls saw.
QueriedTwice == pc = "done" /\ history # Idle /\ network = history.network

RECURSIVE BeforeRoute(_, _)
BeforeRoute(earliest, r) ==
    IF r = 0
    THEN [tau |-> raptor.tau, tau_star |-> raptor.tau_star,
          marked_stops |-> [s \in Stops |-> FALSE], trip_idx |-> None]
    ELSE LET prev == BeforeRoute(earliest, r - 1)
         IN  IF IsSome(earliest[r - 1])
             THEN ScanRoute([prev EXCEPT !.trip_idx = None], raptor.k, r - 1,
                            Unwrap(earliest[r - 1]), query.end)
             ELSE prev

RECURSIVE BeforeStop(_, _, _)
BeforeStop(earliest, r, o) ==
    IF o = Unwrap(earliest[r])
    THEN [BeforeRoute(earliest, r) EXCEPT !.trip_idx = None]
    ELSE ScanStop(BeforeStop(earliest, r, o - 1), raptor.k, r, o - 1, query.end)

\* The routes the coming round scans and the stop order each scan starts at.
RoundEarliest == CollectRoutes([x \in RouteIdxs |-> RoundFill], raptor.marked_stops, 0)

\* The trips of route r that leave stop order o at or after the legal
\* boarding time of the coming round.
Boardable(st, r, o) ==
    LET route == network.routes[r]
        stop_idx == get_stops(route)[o]
        legal == SaturatingAdd(st.tau[stop_idx][raptor.k - 1],
                               CurrentTransferTime(raptor.k, stop_idx))
    IN  { t \in 0..(route.num_trips - 1) : get_trip(route, t)[o].departure_time >= legal }

\* A round is about to run.
RoundPending == pc = "raptor_round" /\ raptor.k < K

\* C21: in a route scan, whenever the trip is selected or reselected at a
\* stop, the trip selected is the smallest-index trip of the route that
\* leaves the stop at or after the legal boarding time, and the trip index
\* never increases along the scan.
C21_EarliestTripSelected ==
    RoundPending =>
        \A r \in RouteIdxs :
            IsSome(RoundEarliest[r]) =>
                \A o \in Unwrap(RoundEarliest[r])..(network.routes[r].num_stops - 1) :
                    LET before == BeforeStop(RoundEarliest, r, o)
                        after  == ScanStop(before, raptor.k, r, o, query.end)
                    IN  /\ after.trip_idx # before.trip_idx =>
                              Unwrap(after.trip_idx).trip_idx = SetMin(Boardable(before, r, o))
                        /\ IsSome(before.trip_idx) =>
                              Unwrap(after.trip_idx).trip_idx <= Unwrap(before.trip_idx).trip_idx

\* The Boarding at stop s names the trip of a connection the sweep has handled
\* that arrives at s at tau[s].time, boarded at an earlier stop order.
NamesProducingTrip(s) ==
    LET boarding == Unwrap(csa.tau[s].boarding)
    IN  \E i \in 0..(csa.pos - 1) :
            LET connection == network.connections[i]
            IN  /\ connection.arrival_idx = s
                /\ connection.arrival_time = csa.tau[s].time
                /\ connection.trip = boarding.trip
                /\ boarding.boarded_stop_order <= connection.departure_stop_order

\* Every stop the sweep has reached from another one has such a Boarding.
BoardingsNameProducingTrips ==
    pc = "csa_sweep" =>
        \A s \in Stops \ {query.start} :
            IsSome(csa.tau[s].boarding) => NamesProducingTrip(s)

\* C22: in the CSA sweep, whenever tau[c.arrival_stop] is improved by
\* connection c, the Boarding stored there is the Boarding of
\* tau[c.departure_stop] if that one is on the trip of c, and otherwise a
\* fresh Boarding made from c; so the Boarding of a stop always names the trip
\* whose connection produced the stop's arrival time, boarded at an earlier
\* stop order of that trip.
C22_BoardingCarriedOrFresh ==
    [][ /\ (CsaStep /\ csa'.tau[network.connections[csa.pos].arrival_idx].time
                         # csa.tau[network.connections[csa.pos].arrival_idx].time) =>
              LET connection == network.connections[csa.pos]
                  prev == csa.tau[connection.departure_idx].boarding
              IN  csa'.tau[connection.arrival_idx].boarding =
                      IF IsSome(prev) /\ Unwrap(prev).trip = connection.trip
                      THEN prev
                      ELSE Some(BoardingFrom(connection))
        /\ BoardingsNameProducingTrips' ]_vars

\* The stored labels that the last call of add removed.
Removed == Stored(bag_call.before) \ Stored(bag)

\* C23: add(l) removes a stored label only if l dominates it, or if the bag
\* held N labels when l was inserted and the label removed is the one with
\* the largest arrival_time; then it is the only label removed and the bag
\* still holds N labels.
C23_RemovesDominatedOrLast ==
    bag_call # Idle =>
        \A x \in Removed :
            \/ dominates(bag_call.new_label, x)
            \/ /\ Len(bag_call.before) = bag_cap
               /\ x = Last(bag_call.before)
               /\ \A y \in Stored(bag_call.before) : y.arrival_time <= x.arrival_time
               /\ Removed = {x}
               /\ Len(bag) = bag_cap

\* A full bag of three labels lost its last label, which the new label does
\* not dominate, to a label that went in front of it.
C23_Witness ==
    /\ bag_call # Idle
    /\ bag_cap = MaxN /\ Len(bag_call.before) = MaxN
    /\ Removed = {Last(bag_call.before)}
    /\ ~dominates(bag_call.new_label, Last(bag_call.before))
    /\ bag_call.new_label \in Stored(bag)

\* The new label is not dominated by a stored label and arrives later than
\* every stored label of a full bag.
LatestInFullBag ==
    /\ bag_call # Idle
    /\ Len(bag_call.before) = bag_cap
    /\ ~\E l \in Stored(bag_call.before) : dominates(l, bag_call.new_label)
    /\ \A l \in Stored(bag_call.before) : l.arrival_time < bag_call.new_label.arrival_time

\* C24: when the bag holds N labels and the new label is not dominated but
\* arrives later than every stored label, add returns false and leaves the
\* bag as it was.
C24_FullBagRefusesLatest ==
    LatestInFullBag => (~bag_call.returned /\ bag = bag_call.before /\ ~bag_call.panicked)

\* Such a label, cheaper than every stored one, was offered to a full bag of
\* three labels.
C24_Witness ==
    /\ LatestInFullBag
    /\ bag_cap = MaxN
    /\ \A l \in Stored(bag_call.before) : bag_call.new_label.cost < l.cost

MinArrival(labels) ==
    IF labels = <<>> THEN TimestampMax
    ELSE SetMin({ labels[i].arrival_time : i \in 1..Len(labels) })

\* C29: every call of add leaves the smallest arrival_time of the bag at the
\* smaller of what it was and the arrival_time of the label offered; so it
\* is the smallest arrival_time ever offered, it never increases, and
\* neither eviction nor refusal loses it.
C29_EarliestArrivalKept ==
    [][ BagAdd =>
          MinArrival(bag') = Min2(MinArrival(bag), bag_call'.new_label.arrival_time) ]_vars

\* A full bag of three labels refused a label, and its first label is the
\* earliest one an earlier call stored.
C29_Witness ==
    /\ bag_call # Idle
    /\ bag_cap = MaxN /\ Len(bag) = MaxN
    /\ ~bag_call.returned
    /\ bag_call.new_label.arrival_time > MinArrival(bag)
    /\ MinArrival(bag) = 0

\* The positions of the connection list that hold the hop of trip t of route
\* r from stop order o to o + 1.
ConnectionsFor(r, t, o) ==
    { i \in DOMAIN network.connections :
        /\ network.connections[i].trip = [route_idx |-> r, trip_order |-> t]
        /\ network.connections[i].departure_stop_order = o }

\* The hops of the timetable: (route, trip, stop order left).
Hops ==
    UNION { { <<r, t, o>> : t \in 0..(network.routes[r].num_trips - 1),
                            o \in 0..(network.routes[r].num_stops - 2) } :
            r \in RouteIdxs }

\* C25: after build_connections the list holds exactly one connection for
\* every route, trip and adjacent stop pair (i, i + 1), with the trip's
\* departure time at i and arrival time at i + 1; two connections have the
\* same sequential_trip_idx exactly when they are of the same route and
\* trip_order, and every sequential_trip_idx is below network.num_trips.
C25_OneConnectionPerHop ==
    ConnectionsBuilt =>
        /\ \A h \in Hops :
              /\ Cardinality(ConnectionsFor(h[1], h[2], h[3])) = 1
              /\ \A i \in ConnectionsFor(h[1], h[2], h[3]) :
                    LET route == network.routes[h[1]]
                        connection == network.connections[i]
                    IN  /\ connection.departure_idx = get_stops(route)[h[3]]
                        /\ connection.arrival_idx = get_stops(route)[h[3] + 1]
                        /\ connection.departure_time = get_trip(route, h[2])[h[3]].departure_time
                        /\ connection.arrival_time = get_trip(route, h[2])[h[3] + 1].arrival_time
        /\ Size(network.connections) = Cardinality(Hops)
        /\ \A i, j \in DOMAIN network.connections :
              (network.connections[i].sequential_trip_idx = network.connections[j].sequential_trip_idx)
                  <=> (network.connections[i].trip = network.connections[j].trip)
        /\ \A i \in DOMAIN network.connections :
              /\ network.connections[i].sequential_trip_idx >= 0
              /\ network.connections[i].sequential_trip_idx < network.num_trips

\* The connections of two routes with one trip each have been built, three
\* in all; the trip of the second route has the last sequential index.
C25_Witness ==
    /\ ConnectionsBuilt
    /\ Size(network.routes) = 2
    /\ network.num_trips = 2
    /\ Size(network.connections) = 3
    /\ \E i \in DOMAIN network.connections :
          /\ network.connections[i].trip.route_idx = 1
          /\ network.connections[i].sequential_trip_idx = 1

\* C26: every journey Raptor::query returns has at most K - 1 legs, as many
\* trips as rounds can run.
C26_AtMostKMinusOneLegs ==
    RaptorReturned => Len(RaptorLegs) <= K - 1

\* The legs the walk of from_tau_bag has emitted when it stops at
\* current_stop: at the start stop, at a label without a Boarding, at a
\* stop where best_label finds no label, or at the leg limit.
RECURSIVE EmittedLegs(_, _, _, _, _, _)
EmittedLegs(tau, start, current_stop, num_legs, next_boarding, start_time) ==
    IF current_stop = start \/ num_legs >= MAX_LEGS THEN num_legs
    ELSE LET next_boarding_time == IF IsSome(next_boarding)
                                   THEN Unwrap(next_boarding).boarded_time
                                   ELSE TimestampMax
             found == best_label(next_boarding_time, tau[current_stop], start_time)
         IN  IF found = None THEN num_legs
             ELSE IF Unwrap(found).boarding = None THEN num_legs
             ELSE EmittedLegs(tau, start, Unwrap(Unwrap(found).boarding).boarded_stop,
                              num_legs + 1, Unwrap(found).boarding, start_time)

\* The multi-criterion query has returned.
McReturned == mc # Idle /\ mc.result # None

\* C27: Journey::from_tau_bag returns InfiniteLoop only when the chain of
\* legs walked back from end has reached the limit of MAX_LEGS; before
\* that every pass emits a leg or ends the walk, also when the labels at
\* the current stop arrive exactly at the next leg's boarding time.
C27_InfiniteLoopOnlyPastLimit ==
    (McReturned /\ McResult.status = "InfiniteLoop") =>
        EmittedLegs(mc.state.tau_star, query.start, query.end, 0, None,
                    mc.state.tau_star[query.start][1].arrival_time) >= MAX_LEGS

\* C30: in the CSA sweep the assertion `departure_idx == start` never
\* fails: an improving connection of a reachable trip finds no Boarding at
\* its departure stop only at the start stop; and every stop other than
\* start whose tau time is below Timestamp::MAX has a Boarding.
C30_DebugAssertionHolds ==
    csa # Idle =>
        /\ ~csa.debug_assert_failed
        /\ \A s \in Stops \ {query.start} :
              csa.tau[s].time < TimestampMax => IsSome(csa.tau[s].boarding)
====
